---- MODULE Spec2Model ----
(***************************************************************************)
(* A model of the ledger engine of blockchain/src/lib.rs: the Node (chain, *)
(* accounts, public-key registry), the block validator, the miner and the  *)
(* transfer logic.  Strings are sequences of one-character strings, byte   *)
(* vectors are sequences of numbers in 0..255.                             *)
(***************************************************************************)
EXTENDS Integers, Sequences, FiniteSets, TLC

(* ------------------------------ bounds -------------------------------- *)
\* addresses are 0..MaxAddress (u64 in the source)
MaxAddress == 2
\* a balance is an unsigned integer of BalanceBits bits (64 in the source)
BalanceBits == 2
\* the chain is not grown beyond MaxChain blocks
MaxChain == 2
\* a digest has HashLen bytes (32 in the source)
HashLen == 4
\* accounts drawn in one call of add_account
MaxDraws == 2

(* ----------------------------- constants ------------------------------ *)
DIFFICULTY_PREFIX == <<"0", "0">>
GENESIS_ADDRESS == 0
GENESIS_PUB_KEY == 1234
U64_MAX == 2^BalanceBits - 1
GENESIS_ACCOUNT == [address |-> GENESIS_ADDRESS, balance |-> U64_MAX, pub_key |-> GENESIS_PUB_KEY]
INIT_BALANCE == 0

GENESIS_HASH ==
    <<
       "a","e","e","b","a","d","4","a","7","9","6","f","c","c","2","e",
       "1","5","d","c","4","c","6","0","6","1","b","4","5","e","d","9",
       "b","3","7","3","f","2","6","a","d","f","c","7","9","8","c","a",
       "7","d","2","d","8","c","c","5","8","1","8","2","7","1","8","e"
    >>
GENESIS_PREVIOUS_HASH == <<"g", "e", "n", "e", "s", "i", "s">>
GENESIS_TIMESTAMP == 1665411300
GENESIS_NONCE == 420

(* --------------------------- payloads (Data) --------------------------- *)
Account(address, balance, pub_key) ==
    [address |-> address, balance |-> balance, pub_key |-> pub_key]
DataAccount(account) == [tag |-> "Account", account |-> account]
DataTransfer(from, to, amount, signature) ==
    [tag |-> "Transfer", from |-> from, to |-> to, amount |-> amount, signature |-> signature]

(* ------------------------------ hex ------------------------------------ *)
HexDigits == <<"0", "1", "2", "3", "4", "5", "6", "7", "8", "9", "a", "b", "c", "d", "e", "f">>
HexDigitSet == {HexDigits[i] : i \in 1..16}
IsHexDigit(c) == c \in HexDigitSet
HexVals == [c \in HexDigitSet |-> (CHOOSE i \in 1..16 : HexDigits[i] = c) - 1]
HexVal(c) == HexVals[c]

\* hex::encode: two lowercase digits per byte, high nibble first
RECURSIVE hex_encode(_)
hex_encode(bytes) ==
    IF bytes = <<>> THEN <<>>
    ELSE <<HexDigits[(Head(bytes) \div 16) + 1], HexDigits[(Head(bytes) % 16) + 1]>>
         \o hex_encode(Tail(bytes))

\* hex::decode succeeds on an even number of hex digits only
HexDecodable(s) == Len(s) % 2 = 0 /\ \A i \in 1..Len(s) : IsHexDigit(s[i])
hex_decode(s) == [i \in 1..(Len(s) \div 2) |-> 16 * HexVal(s[2 * i - 1]) + HexVal(s[2 * i])]

(* ----------------------- binary rendering ------------------------------ *)
\* variant: eight digits per byte, as format!("{:08b}", c) gives
FormatBinaryPadded(c) ==
    [i \in 1..8 |-> HexDigits[((c \div (2 ^ (8 - i))) % 2) + 1]]

\* variant: no digit at all for the byte 0
RECURSIVE FormatBinaryNoZero(_)
FormatBinaryNoZero(c) ==
    IF c = 0 THEN <<>>
    ELSE FormatBinaryNoZero(c \div 2) \o <<HexDigits[(c % 2) + 1]>>

\* format!("{:b}", c): the binary digits of c without leading zeros, "0" for 0
RECURSIVE FormatBinary(_)
FormatBinary(c) ==
    IF c < 2 THEN <<HexDigits[c + 1]>>
    ELSE FormatBinary(c \div 2) \o <<HexDigits[(c % 2) + 1]>>

RECURSIVE hash_to_binary_representation(_)
hash_to_binary_representation(hash) ==
    IF hash = <<>> THEN <<>>
    ELSE FormatBinary(Head(hash)) \o hash_to_binary_representation(Tail(hash))

starts_with(s, prefix) ==
    Len(s) >= Len(prefix) /\ \A i \in 1..Len(prefix) : s[i] = prefix[i]

(* ------------------------------ digest --------------------------------- *)
\* SHA-256 of the canonical JSON of the five fields is abstracted by a fixed
\* deterministic function of the same five fields to HashLen bytes.
Alphabet == HexDigits \o <<"g", "n", "s", "i">>
CharCodes ==
    [c \in {Alphabet[i] : i \in 1..Len(Alphabet)} |->
        CHOOSE i \in 1..Len(Alphabet) : Alphabet[i] = c]
CharCode(c) == CharCodes[c]

\* code of the characters s[lo..hi], by halving the range
RECURSIVE StrCode(_, _, _)
StrCode(s, lo, hi) ==
    IF lo > hi THEN 7
    ELSE IF lo = hi THEN (CharCode(s[lo]) * 53 + lo) % 8191
    ELSE LET mid == (lo + hi) \div 2
         IN  (StrCode(s, lo, mid) * 31 + StrCode(s, mid + 1, hi) * 17 + 3) % 8191

DataCode(data) ==
    IF data.tag = "Account"
    THEN (1 + 3 * data.account.address + 37 * data.account.balance
            + 5 * data.account.pub_key) % 8191
    ELSE (2 + 7 * data.from + 41 * data.to + 211 * data.amount
            + 11 * data.signature) % 8191

Seed(id, timestamp, previous_hash, data) ==
    (id * 131 + (timestamp % 8191) * 17 + StrCode(previous_hash, 1, Len(previous_hash)) * 13
       + DataCode(data) * 29) % 8191

DigestByte(seed, nonce, k) ==
    LET v == seed + nonce IN
    IF k = 1 THEN (IF v % 5 = 1 THEN 15 ELSE IF v % 5 = 4 THEN 174 ELSE 0)
    ELSE IF k = 2 THEN (IF v % 5 = 3 THEN 1 ELSE 0)
    ELSE (seed * (k + 4) + (nonce % 8191) * 29 + k * 101) % 256

calculate_hash(id, timestamp, previous_hash, data, nonce) ==
    LET seed == Seed(id, timestamp, previous_hash, data)
    IN  [k \in 1..HashLen |-> DigestByte(seed, nonce, k)]

(* ------------------------------ blocks --------------------------------- *)
Block(id, hash, previous_hash, timestamp, data, nonce) ==
    [id |-> id, hash |-> hash, previous_hash |-> previous_hash,
     timestamp |-> timestamp, data |-> data, nonce |-> nonce]

\* Block::mine_block: the loop over nonce = 0, 1, 2, ...
RECURSIVE mine_from(_, _, _, _, _)
mine_from(id, timestamp, previous_hash, data, nonce) ==
    LET hash == calculate_hash(id, timestamp, previous_hash, data, nonce)
        binary_hash == hash_to_binary_representation(hash)
    IN  IF starts_with(binary_hash, DIFFICULTY_PREFIX)
        THEN <<nonce, hex_encode(hash)>>
        ELSE mine_from(id, timestamp, previous_hash, data, nonce + 1)

mine_block(id, timestamp, previous_hash, data) ==
    mine_from(id, timestamp, previous_hash, data, 0)

\* variant: the clock is read again (one second later) for the stored timestamp
BlockNewStampedLater(id, previous_hash, data, now) ==
    LET mined == mine_block(id, now, previous_hash, data)
    IN  Block(id, mined[2], previous_hash, now + 1, data, mined[1])

\* Block::new at clock reading now
BlockNew(id, previous_hash, data, now) ==
    LET mined == mine_block(id, now, previous_hash, data)
    IN  Block(id, mined[2], previous_hash, now, data, mined[1])

\* variant: the genesis block is mined like any other block
genesis_block_mined ==
    BlockNew(0, GENESIS_PREVIOUS_HASH, DataAccount(GENESIS_ACCOUNT), GENESIS_TIMESTAMP)

genesis_block ==
    Block(0, GENESIS_HASH, GENESIS_PREVIOUS_HASH, GENESIS_TIMESTAMP,
          DataAccount(GENESIS_ACCOUNT), GENESIS_NONCE)

(* ------------------------------ maps ----------------------------------- *)
\* HashMap::insert: add the key or replace its value
Insert(map, key, value) ==
    [k \in (DOMAIN map) \cup {key} |-> IF k = key THEN value ELSE map[k]]

EmptyMap == [k \in {} |-> 0]

saturating_add(a, b) == IF a + b > U64_MAX THEN U64_MAX ELSE a + b

(* ------------------------------ validator ------------------------------ *)
\* variant: the comparison is dropped
verify_signature_accepts_all(signature, pub_key) == TRUE

verify_signature(signature, pub_key) == signature = pub_key

\* variant: the integrity check is made before the difficulty check
is_block_valid_hash_first(block, previous_block) ==
    IF block.previous_hash # previous_block.hash
    THEN [ret |-> "false", logs |-> <<"Block with id: {} has wrong previous hash">>]
    ELSE IF hex_encode(calculate_hash(block.id, block.timestamp, block.previous_hash,
                                      block.data, block.nonce)) # block.hash
    THEN [ret |-> "false", logs |-> <<"Block with id: {} has invalid hash">>]
    ELSE IF ~HexDecodable(block.hash)
    THEN [ret |-> "panic", logs |-> <<"Should decode from hex.">>]
    ELSE IF ~starts_with(hash_to_binary_representation(hex_decode(block.hash)),
                         DIFFICULTY_PREFIX)
    THEN [ret |-> "false", logs |-> <<"Block with id: {} has invalid difficulty.">>]
    ELSE IF block.id # previous_block.id + 1
    THEN [ret |-> "false",
          logs |-> <<"Block with id: {} is not the next block after the latest: {}">>]
    ELSE [ret |-> "true", logs |-> <<>>]

\* variant: the block's place is not checked (neither linkage nor id)
is_block_valid_anywhere(block, previous_block) ==
    IF ~HexDecodable(block.hash)
    THEN [ret |-> "panic", logs |-> <<"Should decode from hex.">>]
    ELSE IF ~starts_with(hash_to_binary_representation(hex_decode(block.hash)),
                         DIFFICULTY_PREFIX)
    THEN [ret |-> "false", logs |-> <<"Block with id: {} has invalid difficulty.">>]
    ELSE IF hex_encode(calculate_hash(block.id, block.timestamp, block.previous_hash,
                                      block.data, block.nonce)) # block.hash
    THEN [ret |-> "false", logs |-> <<"Block with id: {} has invalid hash">>]
    ELSE [ret |-> "true", logs |-> <<>>]

\* Node::is_block_valid: the outcome ("true", "false", or "panic" when the
\* stated hash does not decode from hex) and the warning it logs
is_block_valid(block, previous_block) ==
    IF block.previous_hash # previous_block.hash
    THEN [ret |-> "false", logs |-> <<"Block with id: {} has wrong previous hash">>]
    ELSE IF ~HexDecodable(block.hash)
    THEN [ret |-> "panic", logs |-> <<"Should decode from hex.">>]
    ELSE IF ~starts_with(hash_to_binary_representation(hex_decode(block.hash)),
                         DIFFICULTY_PREFIX)
    THEN [ret |-> "false", logs |-> <<"Block with id: {} has invalid difficulty.">>]
    ELSE IF block.id # previous_block.id + 1
    THEN [ret |-> "false",
          logs |-> <<"Block with id: {} is not the next block after the latest: {}">>]
    ELSE IF hex_encode(calculate_hash(block.id, block.timestamp, block.previous_hash,
                                      block.data, block.nonce)) # block.hash
    THEN [ret |-> "false", logs |-> <<"Block with id: {} has invalid hash">>]
    ELSE [ret |-> "true", logs |-> <<>>]

\* Node::is_chain_valid: the loop over i = 0 .. chain.len() - 1, from index i
\* (chain positions are 1-based here, so source index i is position i + 1)
RECURSIVE chain_valid_from(_, _)
chain_valid_from(chain, i) ==
    IF i >= Len(chain) THEN [ret |-> "true", logs |-> <<>>]
    ELSE IF i = 0 THEN chain_valid_from(chain, i + 1)
    ELSE LET first == chain[i]
             second == chain[i + 1]
             valid == is_block_valid(second, first)
         IN  IF valid.ret = "true" THEN chain_valid_from(chain, i + 1) ELSE valid

\* variant: the loop skips the first adjacent pair as well as index 0
is_chain_valid_skips_first_pair(chain) == chain_valid_from(chain, 2)

is_chain_valid(chain) == chain_valid_from(chain, 0)

(* ------------------------------ transfers ------------------------------ *)
\* variant: the receiver's record is written with the sender's public key
try_add_transfer_swaps_keys(accts, keys, transfer) ==
    IF transfer.tag = "Transfer"
    THEN LET sender == transfer.from
             receiver == transfer.to
             amount == transfer.amount
             signature == transfer.signature
         IN  IF sender \notin DOMAIN keys
             THEN [accounts |-> accts, ret |-> "false",
                   logs |-> <<"Transfer: invalid sender address!">>]
             ELSE IF ~verify_signature(signature, keys[sender])
             THEN [accounts |-> accts, ret |-> "false",
                   logs |-> <<"Transfer: signature verification failed">>]
             ELSE IF sender \in DOMAIN accts /\ receiver \in DOMAIN accts
             THEN LET balance1 == accts[sender].balance
                      balance2 == accts[receiver].balance
                      pub_key1 == accts[sender].pub_key
                  IN  IF balance1 < amount
                      THEN [accounts |-> accts, ret |-> "false",
                            logs |-> <<"Transfer from: insufficient balance!">>]
                      ELSE [accounts |->
                               Insert(Insert(accts, sender,
                                             Account(sender, balance1 - amount, pub_key1)),
                                      receiver,
                                      Account(receiver, saturating_add(balance2, amount),
                                              pub_key1)),
                            ret |-> "true", logs |-> <<>>]
             ELSE [accounts |-> accts, ret |-> "false",
                   logs |-> <<"Transfer: invalid receiver address!">>]
    ELSE [accounts |-> accts, ret |-> "false", logs |-> <<"Wrong transfer params!">>]

\* variant: the sender is debited before the receiver is looked up
try_add_transfer_debits_early(accts, keys, transfer) ==
    IF transfer.tag = "Transfer"
    THEN LET sender == transfer.from
             receiver == transfer.to
             amount == transfer.amount
             signature == transfer.signature
         IN  IF sender \notin DOMAIN keys
             THEN [accounts |-> accts, ret |-> "false",
                   logs |-> <<"Transfer: invalid sender address!">>]
             ELSE IF ~verify_signature(signature, keys[sender])
             THEN [accounts |-> accts, ret |-> "false",
                   logs |-> <<"Transfer: signature verification failed">>]
             ELSE IF sender \in DOMAIN accts /\ accts[sender].balance < amount
             THEN [accounts |-> accts, ret |-> "false",
                   logs |-> <<"Transfer from: insufficient balance!">>]
             ELSE IF sender \in DOMAIN accts
             THEN LET debited == Insert(accts, sender,
                                        Account(sender, accts[sender].balance - amount,
                                                accts[sender].pub_key))
                  IN  IF receiver \in DOMAIN accts
                      THEN [accounts |->
                               Insert(debited, receiver,
                                      Account(receiver,
                                              saturating_add(accts[receiver].balance, amount),
                                              accts[receiver].pub_key)),
                            ret |-> "true", logs |-> <<>>]
                      ELSE [accounts |-> debited, ret |-> "false",
                            logs |-> <<"Transfer: invalid receiver address!">>]
             ELSE [accounts |-> accts, ret |-> "false",
                   logs |-> <<"Transfer: invalid receiver address!">>]
    ELSE [accounts |-> accts, ret |-> "false", logs |-> <<"Wrong transfer params!">>]

\* variant: the accounts are looked up before the signature is verified
try_add_transfer_receiver_first(accts, keys, transfer) ==
    IF transfer.tag = "Transfer"
    THEN LET sender == transfer.from
             receiver == transfer.to
             amount == transfer.amount
             signature == transfer.signature
         IN  IF sender \notin DOMAIN keys
             THEN [accounts |-> accts, ret |-> "false",
                   logs |-> <<"Transfer: invalid sender address!">>]
             ELSE IF ~(sender \in DOMAIN accts /\ receiver \in DOMAIN accts)
             THEN [accounts |-> accts, ret |-> "false",
                   logs |-> <<"Transfer: invalid receiver address!">>]
             ELSE IF ~verify_signature(signature, keys[sender])
             THEN [accounts |-> accts, ret |-> "false",
                   logs |-> <<"Transfer: signature verification failed">>]
             ELSE IF accts[sender].balance < amount
             THEN [accounts |-> accts, ret |-> "false",
                   logs |-> <<"Transfer from: insufficient balance!">>]
             ELSE [accounts |->
                      Insert(Insert(accts, sender,
                                    Account(sender, accts[sender].balance - amount,
                                            accts[sender].pub_key)),
                             receiver,
                             Account(receiver,
                                     saturating_add(accts[receiver].balance, amount),
                                     accts[receiver].pub_key)),
                   ret |-> "true", logs |-> <<>>]
    ELSE [accounts |-> accts, ret |-> "false", logs |-> <<"Wrong transfer params!">>]

\* Node::try_add_transfer on the maps accts / keys: new accounts map, the
\* returned boolean and the error it logs
try_add_transfer(accts, keys, transfer) ==
    IF transfer.tag = "Transfer"
    THEN LET sender == transfer.from
             receiver == transfer.to
             amount == transfer.amount
             signature == transfer.signature
         IN  IF sender \notin DOMAIN keys
             THEN [accounts |-> accts, ret |-> "false",
                   logs |-> <<"Transfer: invalid sender address!">>]
             ELSE IF ~verify_signature(signature, keys[sender])
             THEN [accounts |-> accts, ret |-> "false",
                   logs |-> <<"Transfer: signature verification failed">>]
             ELSE IF sender \in DOMAIN accts /\ receiver \in DOMAIN accts
             THEN LET balance1 == accts[sender].balance
                      balance2 == accts[receiver].balance
                      pub_key1 == accts[sender].pub_key
                      pub_key2 == accts[receiver].pub_key
                  IN  IF balance1 < amount
                      THEN [accounts |-> accts, ret |-> "false",
                            logs |-> <<"Transfer from: insufficient balance!">>]
                      ELSE [accounts |->
                               Insert(Insert(accts, sender,
                                             Account(sender, balance1 - amount, pub_key1)),
                                      receiver,
                                      Account(receiver, saturating_add(balance2, amount),
                                              pub_key2)),
                            ret |-> "true", logs |-> <<>>]
             ELSE [accounts |-> accts, ret |-> "false",
                   logs |-> <<"Transfer: invalid receiver address!">>]
    ELSE [accounts |-> accts, ret |-> "false", logs |-> <<"Wrong transfer params!">>]

(* ------------------------------ node ----------------------------------- *)
\* variant: an Account payload is applied before the block is validated
try_add_block_applies_first(chn, accts, keys, block) ==
    LET latest_block == chn[Len(chn)]
        valid == is_block_valid(block, latest_block)
        isAccount == block.data.tag = "Account"
        accts1 == IF isAccount
                  THEN Insert(accts, block.data.account.address, block.data.account)
                  ELSE accts
        keys1 == IF isAccount
                 THEN Insert(keys, block.data.account.address, block.data.account.pub_key)
                 ELSE keys
    IN  IF valid.ret = "panic"
        THEN [blocks |-> chn, accounts |-> accts, pub_keys |-> keys,
              ret |-> "panic", logs |-> valid.logs]
        ELSE IF valid.ret = "true"
        THEN IF isAccount
             THEN [blocks |-> Append(chn, block), accounts |-> accts1, pub_keys |-> keys1,
                   ret |-> "true", logs |-> <<>>]
             ELSE LET transfer == try_add_transfer(accts, keys, block.data)
                  IN  IF transfer.ret # "true"
                      THEN [blocks |-> chn, accounts |-> transfer.accounts,
                            pub_keys |-> keys, ret |-> "false", logs |-> transfer.logs]
                      ELSE [blocks |-> Append(chn, block),
                            accounts |-> transfer.accounts, pub_keys |-> keys,
                            ret |-> "true", logs |-> <<>>]
        ELSE [blocks |-> chn, accounts |-> accts1, pub_keys |-> keys1, ret |-> "false",
              logs |-> valid.logs \o <<"Could not add block - invalid.">>]

\* variant: the block is pushed before its transfer is applied
try_add_block_pushes_first(chn, accts, keys, block) ==
    LET latest_block == chn[Len(chn)]
        valid == is_block_valid(block, latest_block)
    IN  IF valid.ret = "panic"
        THEN [blocks |-> chn, accounts |-> accts, pub_keys |-> keys,
              ret |-> "panic", logs |-> valid.logs]
        ELSE IF valid.ret = "true"
        THEN IF block.data.tag = "Account"
             THEN LET account == block.data.account
                  IN  [blocks |-> Append(chn, block),
                       accounts |-> Insert(accts, account.address, account),
                       pub_keys |-> Insert(keys, account.address, account.pub_key),
                       ret |-> "true", logs |-> <<>>]
             ELSE LET transfer == try_add_transfer(accts, keys, block.data)
                  IN  [blocks |-> Append(chn, block),
                       accounts |-> transfer.accounts, pub_keys |-> keys,
                       ret |-> transfer.ret, logs |-> transfer.logs]
        ELSE [blocks |-> chn, accounts |-> accts, pub_keys |-> keys, ret |-> "false",
              logs |-> valid.logs \o <<"Could not add block - invalid.">>]

\* variant: an Account payload is stored without its public key
try_add_block_forgets_key(chn, accts, keys, block) ==
    LET latest_block == chn[Len(chn)]
        valid == is_block_valid(block, latest_block)
    IN  IF valid.ret = "panic"
        THEN [blocks |-> chn, accounts |-> accts, pub_keys |-> keys,
              ret |-> "panic", logs |-> valid.logs]
        ELSE IF valid.ret = "true"
        THEN IF block.data.tag = "Account"
             THEN LET account == block.data.account
                  IN  [blocks |-> Append(chn, block),
                       accounts |-> Insert(accts, account.address, account),
                       pub_keys |-> keys,
                       ret |-> "true", logs |-> <<>>]
             ELSE LET transfer == try_add_transfer(accts, keys, block.data)
                  IN  IF transfer.ret # "true"
                      THEN [blocks |-> chn, accounts |-> transfer.accounts,
                            pub_keys |-> keys, ret |-> "false", logs |-> transfer.logs]
                      ELSE [blocks |-> Append(chn, block),
                            accounts |-> transfer.accounts, pub_keys |-> keys,
                            ret |-> "true", logs |-> <<>>]
        ELSE [blocks |-> chn, accounts |-> accts, pub_keys |-> keys, ret |-> "false",
              logs |-> valid.logs \o <<"Could not add block - invalid.">>]

\* Node::try_add_block on a node with chain chn (non-empty), maps accts / keys
\* variant: an Account payload never replaces a registered account
try_add_block_keeps_registered(chn, accts, keys, block) ==
    LET latest_block == chn[Len(chn)]
        valid == is_block_valid(block, latest_block)
    IN  IF valid.ret = "panic"
        THEN [blocks |-> chn, accounts |-> accts, pub_keys |-> keys,
              ret |-> "panic", logs |-> valid.logs]
        ELSE IF valid.ret = "true"
        THEN IF block.data.tag = "Account"
             THEN LET account == block.data.account
                      fresh == account.address \notin DOMAIN accts
                  IN  [blocks |-> Append(chn, block),
                       accounts |-> IF fresh THEN Insert(accts, account.address, account)
                                    ELSE accts,
                       pub_keys |-> IF fresh THEN Insert(keys, account.address, account.pub_key)
                                    ELSE keys,
                       ret |-> "true", logs |-> <<>>]
             ELSE LET transfer == try_add_transfer(accts, keys, block.data)
                  IN  IF transfer.ret # "true"
                      THEN [blocks |-> chn, accounts |-> transfer.accounts,
                            pub_keys |-> keys, ret |-> "false", logs |-> transfer.logs]
                      ELSE [blocks |-> Append(chn, block),
                            accounts |-> transfer.accounts, pub_keys |-> keys,
                            ret |-> "true", logs |-> <<>>]
        ELSE [blocks |-> chn, accounts |-> accts, pub_keys |-> keys, ret |-> "false",
              logs |-> valid.logs \o <<"Could not add block - invalid.">>]

try_add_block(chn, accts, keys, block) ==
    LET latest_block == chn[Len(chn)]
        valid == is_block_valid(block, latest_block)
    IN  IF valid.ret = "panic"
        THEN [blocks |-> chn, accounts |-> accts, pub_keys |-> keys,
              ret |-> "panic", logs |-> valid.logs]
        ELSE IF valid.ret = "true"
        THEN IF block.data.tag = "Account"
             THEN LET account == block.data.account
                  IN  [blocks |-> Append(chn, block),
                       accounts |-> Insert(accts, account.address, account),
                       pub_keys |-> Insert(keys, account.address, account.pub_key),
                       ret |-> "true", logs |-> <<>>]
             ELSE LET transfer == try_add_transfer(accts, keys, block.data)
                  IN  IF transfer.ret # "true"
                      THEN [blocks |-> chn, accounts |-> transfer.accounts,
                            pub_keys |-> keys, ret |-> "false", logs |-> transfer.logs]
                      ELSE [blocks |-> Append(chn, block),
                            accounts |-> transfer.accounts, pub_keys |-> keys,
                            ret |-> "true", logs |-> <<>>]
        ELSE [blocks |-> chn, accounts |-> accts, pub_keys |-> keys, ret |-> "false",
              logs |-> valid.logs \o <<"Could not add block - invalid.">>]

(* ---------------------------- add_account ------------------------------ *)
\* variant: the first account drawn is registered, whatever its address
add_account_first_drawn(accts, keys, draws) ==
    LET account == Head(draws)
    IN  [accounts |-> Insert(accts, account.address, account),
         pub_keys |-> Insert(keys, account.address, account.pub_key),
         ret |-> "account", account |-> account]

\* Node::add_account: draws are the accounts Account::new yields one after the
\* other; the loop registers the first whose address is not a key of accounts,
\* and is still drawing ("loop") when every draw so far collided
RECURSIVE add_account(_, _, _)
add_account(accts, keys, draws) ==
    IF draws = <<>>
    THEN [accounts |-> accts, pub_keys |-> keys, ret |-> "loop", account |-> <<>>]
    ELSE LET account == Head(draws)
         IN  IF account.address \notin DOMAIN accts
             THEN [accounts |-> Insert(accts, account.address, account),
                   pub_keys |-> Insert(keys, account.address, account.pub_key),
                   ret |-> "account", account |-> account]
             ELSE add_account(accts, keys, Tail(draws))

(* ---------------------------- fork choice ------------------------------ *)
\* variant: a tie goes to remote
choose_chain_remote_on_tie(chn, accts, keys, local, remote) ==
    LET is_local_valid == is_chain_valid(local)
        is_remote_valid == is_chain_valid(remote)
        node == [blocks |-> chn, accounts |-> accts, pub_keys |-> keys]
    IN  IF is_local_valid.ret = "panic" \/ is_remote_valid.ret = "panic"
        THEN node @@ [ret |-> "panic", chain |-> <<>>, logs |-> <<"Should decode from hex.">>]
        ELSE IF is_local_valid.ret = "true" /\ is_remote_valid.ret = "true"
        THEN node @@ [ret |-> "chain", logs |-> <<>>,
                      chain |-> IF Len(local) > Len(remote) THEN local ELSE remote]
        ELSE IF is_local_valid.ret = "true"
        THEN node @@ [ret |-> "chain", chain |-> local, logs |-> is_remote_valid.logs]
        ELSE IF is_remote_valid.ret = "true"
        THEN node @@ [ret |-> "chain", chain |-> remote, logs |-> is_local_valid.logs]
        ELSE node @@ [ret |-> "panic", chain |-> <<>>,
                      logs |-> is_local_valid.logs \o is_remote_valid.logs
                               \o <<"Local and remote chains both are invalid!">>]

\* variant: the longer chain wins whenever at least one chain is valid
choose_chain_longest_wins(chn, accts, keys, local, remote) ==
    LET is_local_valid == is_chain_valid(local)
        is_remote_valid == is_chain_valid(remote)
        node == [blocks |-> chn, accounts |-> accts, pub_keys |-> keys]
    IN  IF is_local_valid.ret = "panic" \/ is_remote_valid.ret = "panic"
        THEN node @@ [ret |-> "panic", chain |-> <<>>, logs |-> <<"Should decode from hex.">>]
        ELSE IF is_local_valid.ret = "true" \/ is_remote_valid.ret = "true"
        THEN node @@ [ret |-> "chain", logs |-> is_local_valid.logs \o is_remote_valid.logs,
                      chain |-> IF Len(local) >= Len(remote) THEN local ELSE remote]
        ELSE node @@ [ret |-> "panic", chain |-> <<>>,
                      logs |-> is_local_valid.logs \o is_remote_valid.logs
                               \o <<"Local and remote chains both are invalid!">>]

\* variant: with no valid chain the local one is kept
choose_chain_keeps_local(chn, accts, keys, local, remote) ==
    LET is_local_valid == is_chain_valid(local)
        is_remote_valid == is_chain_valid(remote)
        node == [blocks |-> chn, accounts |-> accts, pub_keys |-> keys]
    IN  IF is_local_valid.ret = "panic" \/ is_remote_valid.ret = "panic"
        THEN node @@ [ret |-> "panic", chain |-> <<>>, logs |-> <<"Should decode from hex.">>]
        ELSE IF is_local_valid.ret = "true" /\ is_remote_valid.ret = "true"
        THEN node @@ [ret |-> "chain", logs |-> <<>>,
                      chain |-> IF Len(local) >= Len(remote) THEN local ELSE remote]
        ELSE IF is_remote_valid.ret = "true" /\ is_local_valid.ret # "true"
        THEN node @@ [ret |-> "chain", chain |-> remote, logs |-> is_local_valid.logs]
        ELSE node @@ [ret |-> "chain", chain |-> local,
                      logs |-> is_local_valid.logs \o is_remote_valid.logs]

\* variant: the winner is stored as the node's chain
choose_chain_stores_winner(chn, accts, keys, local, remote) ==
    LET is_local_valid == is_chain_valid(local)
        is_remote_valid == is_chain_valid(remote)
        node == [accounts |-> accts, pub_keys |-> keys]
    IN  IF is_local_valid.ret = "panic" \/ is_remote_valid.ret = "panic"
        THEN node @@ [blocks |-> chn, ret |-> "panic", chain |-> <<>>,
                      logs |-> <<"Should decode from hex.">>]
        ELSE IF is_local_valid.ret = "true" /\ is_remote_valid.ret = "true"
        THEN LET winner == IF Len(local) >= Len(remote) THEN local ELSE remote
             IN  node @@ [blocks |-> winner, ret |-> "chain", chain |-> winner, logs |-> <<>>]
        ELSE IF is_local_valid.ret = "true"
        THEN node @@ [blocks |-> local, ret |-> "chain", chain |-> local,
                      logs |-> is_remote_valid.logs]
        ELSE IF is_remote_valid.ret = "true"
        THEN node @@ [blocks |-> remote, ret |-> "chain", chain |-> remote,
                      logs |-> is_local_valid.logs]
        ELSE node @@ [blocks |-> chn, ret |-> "panic", chain |-> <<>>,
                      logs |-> is_local_valid.logs \o is_remote_valid.logs
                               \o <<"Local and remote chains both are invalid!">>]

\* Node::choose_chain(&mut self, local, remote): both chains are validated
\* first (a hash that does not decode where the validator reads it panics
\* there); the result is the chain returned, the node is handed back as it was
choose_chain(chn, accts, keys, local, remote) ==
    LET is_local_valid == is_chain_valid(local)
        is_remote_valid == is_chain_valid(remote)
        node == [blocks |-> chn, accounts |-> accts, pub_keys |-> keys]
    IN  IF is_local_valid.ret = "panic" \/ is_remote_valid.ret = "panic"
        THEN node @@ [ret |-> "panic", chain |-> <<>>, logs |-> <<"Should decode from hex.">>]
        ELSE IF is_local_valid.ret = "true" /\ is_remote_valid.ret = "true"
        THEN node @@ [ret |-> "chain", logs |-> <<>>,
                      chain |-> IF Len(local) >= Len(remote) THEN local ELSE remote]
        ELSE IF is_local_valid.ret = "true"
        THEN node @@ [ret |-> "chain", chain |-> local, logs |-> is_remote_valid.logs]
        ELSE IF is_remote_valid.ret = "true"
        THEN node @@ [ret |-> "chain", chain |-> remote, logs |-> is_local_valid.logs]
        ELSE node @@ [ret |-> "panic", chain |-> <<>>,
                      logs |-> is_local_valid.logs \o is_remote_valid.logs
                               \o <<"Local and remote chains both are invalid!">>]

(* ------------------------------ inputs --------------------------------- *)
Addresses == 0..MaxAddress
PubKeys == {GENESIS_PUB_KEY, 1111}
Amounts == {1, U64_MAX}
Timestamps == {1665411301}

\* the accounts Account::new draws: any address, balance INIT_BALANCE
NewAccounts == {Account(a, INIT_BALANCE, 1111) : a \in Addresses}

\* what Account::new yields in one call of add_account: up to MaxDraws accounts
Draws == UNION {[1..n -> NewAccounts] : n \in 1..MaxDraws}

\* payloads of submitted blocks and transfers
AccountPayloads ==
    {DataAccount(a) : a \in NewAccounts} \cup {DataAccount(Account(1, U64_MAX, 1111))}
TransferPayloads ==
    {DataTransfer(f, t, m, g) : f \in Addresses, t \in Addresses, m \in Amounts, g \in PubKeys}
Payloads == AccountPayloads \cup TransferPayloads

\* payloads handed to try_add_transfer directly: transfers of a whole balance
\* and one payload that is not a transfer
DirectPayloads ==
    {d \in TransferPayloads : d.amount = U64_MAX} \cup {DataAccount(GENESIS_ACCOUNT)}

\* the ways a block is altered in node_tests, and a hash that is not hex
ReplaceRange(s, n, with) == with \o SubSeq(s, n + 1, Len(s))
WrongPreviousHash(b) == [b EXCEPT !.previous_hash = ReplaceRange(b.previous_hash, 1, <<"f">>)]
WrongDifficulty(b) == [b EXCEPT !.hash = ReplaceRange(b.hash, 2, <<"0", "f">>)]
WrongId(b) == [b EXCEPT !.id = b.id + 1]
WrongData(b) == [b EXCEPT !.data = DataAccount(Account(1, 0, 2222))]
NotHex(b) == [b EXCEPT !.hash = ReplaceRange(b.hash, 1, <<"g">>)]

Alterations == {"previous_hash", "difficulty", "id", "data", "not_hex"}
Alter(b, alts) ==
    LET b1 == IF "previous_hash" \in alts THEN WrongPreviousHash(b) ELSE b
        b2 == IF "difficulty" \in alts THEN WrongDifficulty(b1) ELSE b1
        b3 == IF "id" \in alts THEN WrongId(b2) ELSE b2
        b4 == IF "data" \in alts THEN WrongData(b3) ELSE b3
    IN  IF "not_hex" \in alts THEN NotHex(b4) ELSE b4

\* payloads whose mined blocks are also submitted in altered form
AlteredPayloads ==
    {DataAccount(Account(1, INIT_BALANCE, 1111))}

\* the blocks a caller or a peer submits when the chain is chn: blocks mined
\* on the head, altered copies of such blocks, and blocks already in the chain
HeadOf(chn) == IF chn = <<>> THEN genesis_block ELSE chn[Len(chn)]
MinedOn(chn, payloads) ==
    {BlockNew(HeadOf(chn).id + 1, HeadOf(chn).hash, d, now) : d \in payloads, now \in Timestamps}
\* blocks mined correctly but for another place: one id too far, or on a hash
\* that is not the head's; and a block whose nonce was never mined
MisplacedOn(chn) ==
    {BlockNew(HeadOf(chn).id + 2, HeadOf(chn).hash, d, now) :
         d \in AlteredPayloads, now \in Timestamps}
    \cup {BlockNew(HeadOf(chn).id + 1, ReplaceRange(HeadOf(chn).hash, 1, <<"f">>), d, now) :
         d \in AlteredPayloads, now \in Timestamps}
Unmined(b) ==
    [b EXCEPT !.nonce = b.nonce + 1,
              !.hash = hex_encode(calculate_hash(b.id, b.timestamp, b.previous_hash,
                                                 b.data, b.nonce + 1))]

BlockCandidates(chn) ==
    MinedOn(chn, Payloads)
    \cup MisplacedOn(chn)
    \cup {Unmined(b) : b \in MinedOn(chn, AlteredPayloads)}
    \cup {Alter(b, alts) : b \in MinedOn(chn, AlteredPayloads), alts \in SUBSET Alterations}
    \cup {chn[i] : i \in 1..Len(chn)}

\* the chains handed to is_chain_valid: the node's chain, its prefixes and
\* suffixes, the chain with its first block doubled, with one block altered,
\* and with one more (possibly altered) block
ChainCandidates(chn) ==
    {SubSeq(chn, 1, k) : k \in 0..Len(chn)}
    \cup {SubSeq(chn, k, Len(chn)) : k \in 1..Len(chn)}
    \cup {<<HeadOf(chn)>> \o chn}
    \cup {<<genesis_block>> \o chn}
    \cup {[chn EXCEPT ![i] = Alter(chn[i], alts)] :
              i \in 1..Len(chn), alts \in {{"data"}, {"id"}, {"not_hex"}, {"difficulty"}}}
    \cup {chn \o <<Alter(b, alts)>> :
              b \in MinedOn(chn, AlteredPayloads),
              alts \in {{}, {"previous_hash"}, {"difficulty"}, {"id"}, {"data"}, {"not_hex"}}}

\* chains of the fork-choice runs are one block longer
MaxLongChain == MaxChain + 1

\* payloads of the blocks peers mine and send
ReceivePayloads ==
    AlteredPayloads
    \cup {DataAccount(Account(GENESIS_ADDRESS, INIT_BALANCE, 1111)),
          DataTransfer(GENESIS_ADDRESS, 1, 1, GENESIS_PUB_KEY)}

\* chains a peer built on a root of its own: a first block that is not the
\* genesis block, alone and with a block mined on it
ForeignRoot ==
    BlockNew(0, GENESIS_PREVIOUS_HASH, DataAccount(Account(1, U64_MAX, 1111)), 1665411301)
ForeignChains ==
    {<<ForeignRoot>>}
    \cup {<<ForeignRoot, b>> : b \in MinedOn(<<ForeignRoot>>, AlteredPayloads)}

\* the chains compared by choose_chain when the node's chain is chn: the chain,
\* its prefixes, chains with another root, the chain with one more block mined
\* on it, with its last block doubled, with a block of a wrong id, with a
\* block whose hash is not hex
ForkCandidates(chn) ==
    {SubSeq(chn, 1, k) : k \in 0..Len(chn)}
    \cup ForeignChains
    \cup {chn \o <<b>> : b \in MinedOn(chn, ReceivePayloads)}
    \cup {chn \o <<HeadOf(chn)>>}
    \cup {chn \o <<Alter(b, alts)>> :
              b \in MinedOn(chn, AlteredPayloads), alts \in {{"id"}, {"not_hex"}}}

\* the arguments Block::new is called with when the chain is chn: ids around
\* the head's, the head's hash, the genesis marker and another hash, any payload
NewBlockIds == 0..MaxLongChain
NewBlockPreviousHashes(chn) ==
    {HeadOf(chn).hash, GENESIS_PREVIOUS_HASH, ReplaceRange(HeadOf(chn).hash, 1, <<"f">>)}

\* byte values of the hashes rendered and validated: zero, one, 0x0f, a byte
\* with its top bit set; and the byte strings rendered alone
SampleBytes == {0, 1, 15, 128}
SampleHashes == [1..HashLen -> SampleBytes]
RenderedHashes == UNION {[1..n -> SampleBytes \cup {2, 255}] : n \in 0..2}

\* payloads of the blocks submitted to a node in operation: every account
\* payload, an account that starts with a balance of 1, transfers of 1
OperationPayloads ==
    AccountPayloads
    \cup {DataAccount(Account(1, 1, 1111))}
    \cup {d \in TransferPayloads : d.amount = 1}

(* ------------------------------ state ---------------------------------- *)
VARIABLES blocks, accounts, pub_keys, call, ret, logs, init_receiver
vars == <<blocks, accounts, pub_keys, call, ret, logs, init_receiver>>

\* Node::new; call / ret / logs describe the last call made on the node;
\* init_receiver is the channel of the Init event of the node's main loop, whose
\* one message is "pending" until the loop has received it
Init ==
    /\ init_receiver = "pending"
    /\ blocks = <<>>
    /\ accounts = EmptyMap
    /\ pub_keys = EmptyMap
    /\ call = [op |-> "new"]
    /\ ret = "unit"
    /\ logs = <<>>

\* a call is made when the previous one has returned and has not panicked
Idle == call.op = "idle"

\* variant: genesis does nothing on a chain that has a block
GenesisOnce(max) ==
    /\ Idle
    /\ UNCHANGED init_receiver
    /\ Len(blocks) < max
    /\ pub_keys' = IF blocks = <<>> THEN Insert(pub_keys, GENESIS_ADDRESS, GENESIS_PUB_KEY)
                   ELSE pub_keys
    /\ accounts' = IF blocks = <<>> THEN Insert(accounts, GENESIS_ADDRESS, GENESIS_ACCOUNT)
                   ELSE accounts
    /\ blocks' = IF blocks = <<>> THEN Append(blocks, genesis_block) ELSE blocks
    /\ call' = [op |-> "genesis"]
    /\ ret' = "unit"
    /\ logs' = <<>>

\* Node::genesis, on a chain of fewer than max blocks
GenesisUpTo(max) ==
    /\ Idle
    /\ UNCHANGED init_receiver
    /\ Len(blocks) < max
    /\ pub_keys' = Insert(pub_keys, GENESIS_ADDRESS, GENESIS_PUB_KEY)
    /\ accounts' = Insert(accounts, GENESIS_ADDRESS, GENESIS_ACCOUNT)
    /\ blocks' = Append(blocks, genesis_block)
    /\ call' = [op |-> "genesis"]
    /\ ret' = "unit"
    /\ logs' = <<>>

Genesis == GenesisUpTo(MaxChain)

\* Node::add_account, the accounts drawn by Account::new being draws; the
\* call returns when a drawn address is not registered
AddAccount ==
    /\ Idle
    /\ UNCHANGED init_receiver
    /\ \E draws \in Draws :
         LET r == add_account(accounts, pub_keys, draws)
         IN  /\ r.ret = "account"
             /\ accounts' = r.accounts
             /\ pub_keys' = r.pub_keys
             /\ call' = [op |-> "add_account", account |-> r.account, draws |-> draws]
             /\ ret' = r.ret
    /\ logs' = <<>>
    /\ UNCHANGED blocks

\* variant: on an empty chain the block is refused like an invalid one
TryAddBlockRefusesOnEmpty ==
    /\ Idle
    /\ UNCHANGED init_receiver
    /\ \E block \in BlockCandidates(blocks) :
         /\ call' = [op |-> "try_add_block", block |-> block]
         /\ IF blocks = <<>>
            THEN /\ ret' = "false"
                 /\ logs' = <<"Could not add block - invalid.">>
                 /\ UNCHANGED <<blocks, accounts, pub_keys>>
            ELSE LET r == try_add_block(blocks, accounts, pub_keys, block)
                 IN  /\ Len(r.blocks) <= MaxChain
                     /\ blocks' = r.blocks
                     /\ accounts' = r.accounts
                     /\ pub_keys' = r.pub_keys
                     /\ ret' = r.ret
                     /\ logs' = r.logs

\* Node::try_add_block; get_last_block panics on an empty chain
TryAddBlock ==
    /\ Idle
    /\ UNCHANGED init_receiver
    /\ \E block \in BlockCandidates(blocks) :
         /\ call' = [op |-> "try_add_block", block |-> block]
         /\ IF blocks = <<>>
            THEN /\ ret' = "panic"
                 /\ logs' = <<"There is at least one block">>
                 /\ UNCHANGED <<blocks, accounts, pub_keys>>
            ELSE LET r == try_add_block(blocks, accounts, pub_keys, block)
                 IN  /\ Len(r.blocks) <= MaxChain
                     /\ blocks' = r.blocks
                     /\ accounts' = r.accounts
                     /\ pub_keys' = r.pub_keys
                     /\ ret' = r.ret
                     /\ logs' = r.logs

\* Node::try_add_transfer called directly (as handle_transfer does) with a
\* payload of the set payloads
TryAddTransferOf(payloads) ==
    /\ Idle
    /\ UNCHANGED init_receiver
    /\ \E data \in payloads :
         LET r == try_add_transfer(accounts, pub_keys, data)
         IN  /\ call' = [op |-> "try_add_transfer", data |-> data]
             /\ accounts' = r.accounts
             /\ ret' = r.ret
             /\ logs' = r.logs
    /\ UNCHANGED <<blocks, pub_keys>>

TryAddTransfer == TryAddTransferOf(DirectPayloads)

TryAddTransferAny == TryAddTransferOf(TransferPayloads \cup {DataAccount(GENESIS_ACCOUNT)})

\* Node::is_chain_valid on a candidate chain
IsChainValid ==
    /\ Idle
    /\ UNCHANGED init_receiver
    /\ \E chain \in ChainCandidates(blocks) :
         LET r == is_chain_valid(chain)
         IN  /\ call' = [op |-> "is_chain_valid", chain |-> chain]
             /\ ret' = r.ret
             /\ logs' = r.logs
    /\ UNCHANGED <<blocks, accounts, pub_keys>>

\* the caller takes the result of the last call (a panic ends the process,
\* and a call whose loop is still running has no result yet)
Return ==
    /\ call.op # "idle"
    /\ UNCHANGED init_receiver
    /\ ret # "panic"
    /\ ret # "mining"
    /\ call' = [op |-> "idle"]
    /\ ret' = "unit"
    /\ logs' = <<>>
    /\ UNCHANGED <<blocks, accounts, pub_keys>>

Next == Return \/ Genesis \/ AddAccount \/ TryAddBlock \/ TryAddTransfer \/ IsChainValid

Spec == Init /\ [][Next]_vars

\* the ledger alone: no block is submitted, transfers of every amount are
NextLedger == Return \/ Genesis \/ AddAccount \/ TryAddTransferAny

SpecLedger == Init /\ [][NextLedger]_vars

GenesisAgain == GenesisUpTo(MaxLongChain)

\* a block from a peer is handed to Node::try_add_block (inject_event, inbound
\* Block): a block a peer mined on the head, or a block already in the chain
ReceiveBlock ==
    /\ Idle
    /\ UNCHANGED init_receiver
    /\ \E block \in MinedOn(blocks, ReceivePayloads) \cup {blocks[i] : i \in 1..Len(blocks)} :
         /\ call' = [op |-> "try_add_block", block |-> block]
         /\ IF blocks = <<>>
            THEN /\ ret' = "panic"
                 /\ logs' = <<"There is at least one block">>
                 /\ UNCHANGED <<blocks, accounts, pub_keys>>
            ELSE LET r == try_add_block(blocks, accounts, pub_keys, block)
                 IN  /\ Len(r.blocks) <= MaxLongChain
                     /\ blocks' = r.blocks
                     /\ accounts' = r.accounts
                     /\ pub_keys' = r.pub_keys
                     /\ ret' = r.ret
                     /\ logs' = r.logs

\* the caller's one genesis() at startup: Node::genesis on a fresh node
GenesisFirst == GenesisUpTo(1)

\* variant: the block replaces the head of the chain when it is not valid
SubmitBlockReplacesHead ==
    /\ Idle
    /\ UNCHANGED init_receiver
    /\ \E block \in MinedOn(blocks, OperationPayloads) \cup MisplacedOn(blocks)
                    \cup {blocks[i] : i \in 1..Len(blocks)} :
         /\ call' = [op |-> "try_add_block", block |-> block]
         /\ IF blocks = <<>>
            THEN /\ ret' = "panic"
                 /\ logs' = <<"There is at least one block">>
                 /\ UNCHANGED <<blocks, accounts, pub_keys>>
            ELSE LET r == try_add_block(blocks, accounts, pub_keys, block)
                 IN  /\ Len(r.blocks) <= MaxLongChain
                     /\ blocks' = IF r.ret = "false"
                                  THEN [blocks EXCEPT ![Len(blocks)] = block]
                                  ELSE r.blocks
                     /\ accounts' = r.accounts
                     /\ pub_keys' = r.pub_keys
                     /\ ret' = r.ret
                     /\ logs' = r.logs

\* Node::try_add_block on a node in operation: a block mined on the head with
\* any payload, a block mined for another place, or a block of the chain
SubmitBlock ==
    /\ Idle
    /\ UNCHANGED init_receiver
    /\ \E block \in MinedOn(blocks, OperationPayloads) \cup MisplacedOn(blocks)
                    \cup {blocks[i] : i \in 1..Len(blocks)} :
         /\ call' = [op |-> "try_add_block", block |-> block]
         /\ IF blocks = <<>>
            THEN /\ ret' = "panic"
                 /\ logs' = <<"There is at least one block">>
                 /\ UNCHANGED <<blocks, accounts, pub_keys>>
            ELSE LET r == try_add_block(blocks, accounts, pub_keys, block)
                 IN  /\ Len(r.blocks) <= MaxLongChain
                     /\ blocks' = r.blocks
                     /\ accounts' = r.accounts
                     /\ pub_keys' = r.pub_keys
                     /\ ret' = r.ret
                     /\ logs' = r.logs

\* a node in operation: one genesis, then accounts, blocks and transfers
NextOperation == Return \/ GenesisFirst \/ AddAccount \/ SubmitBlock \/ TryAddTransfer

SpecOperation == Init /\ [][NextOperation]_vars

\* a node whose ledger is written by blocks alone
NextReplay == Return \/ GenesisFirst \/ SubmitBlock

SpecReplay == Init /\ [][NextReplay]_vars

\* Node::choose_chain on two candidate chains; the chain returned is kept in
\* the record of the call
ChooseChain ==
    /\ Idle
    /\ UNCHANGED init_receiver
    /\ \E local \in ForkCandidates(blocks), remote \in ForkCandidates(blocks) :
         LET r == choose_chain(blocks, accounts, pub_keys, local, remote)
         IN  /\ call' = [op |-> "choose_chain", local |-> local, remote |-> remote,
                         chain |-> r.chain]
             /\ blocks' = r.blocks
             /\ accounts' = r.accounts
             /\ pub_keys' = r.pub_keys
             /\ ret' = r.ret
             /\ logs' = r.logs

\* Block::new(id, previous_hash, data), the clock reading now
NewBlock ==
    /\ Idle
    /\ UNCHANGED init_receiver
    /\ \E id \in NewBlockIds, previous_hash \in NewBlockPreviousHashes(blocks),
          data \in Payloads, now \in Timestamps :
         call' = [op |-> "block_new", id |-> id, previous_hash |-> previous_hash,
                  data |-> data, now |-> now,
                  block |-> BlockNew(id, previous_hash, data, now)]
    /\ ret' = "block"
    /\ logs' = <<"Mining block ...">>
    /\ UNCHANGED <<blocks, accounts, pub_keys>>

\* handle_create_block: a block for data is mined on the last block and pushed
\* on the chain (the payload is not applied here); an empty chain panics
CreateBlock ==
    /\ Idle
    /\ UNCHANGED init_receiver
    /\ Len(blocks) < MaxLongChain
    /\ \E data \in ReceivePayloads, now \in Timestamps :
         IF blocks = <<>>
         THEN /\ call' = [op |-> "create_block", data |-> data]
              /\ ret' = "panic"
              /\ logs' = <<"There is at least one block">>
              /\ UNCHANGED <<blocks, accounts, pub_keys>>
         ELSE LET latest_block == blocks[Len(blocks)]
                  block == BlockNew(latest_block.id + 1, latest_block.hash, data, now)
              IN  /\ call' = [op |-> "create_block", data |-> data, block |-> block]
                  /\ blocks' = Append(blocks, block)
                  /\ ret' = "unit"
                  /\ logs' = <<"Mining block ...", "Broadcasting new block">>
                  /\ UNCHANGED <<accounts, pub_keys>>

\* the miner: blocks are made by Block::new and pushed by handle_create_block
NextMiner == Return \/ GenesisAgain \/ NewBlock \/ CreateBlock

SpecMiner == Init /\ [][NextMiner]_vars

\* hash_to_binary_representation on a byte string
RenderHash ==
    /\ Idle
    /\ UNCHANGED init_receiver
    /\ \E hash \in RenderedHashes :
         call' = [op |-> "hash_to_binary_representation", hash |-> hash,
                  binary |-> hash_to_binary_representation(hash)]
    /\ ret' = "string"
    /\ logs' = <<>>
    /\ UNCHANGED <<blocks, accounts, pub_keys>>

\* is_block_valid on a block in the right place (next id, the predecessor's
\* hash as previous_hash) whose stated hash is the hex form of a given digest
ValidateStatedHash ==
    /\ Idle
    /\ UNCHANGED init_receiver
    /\ \E hash \in SampleHashes, data \in AlteredPayloads, now \in Timestamps :
         LET previous_block == HeadOf(blocks)
             block == Block(previous_block.id + 1, hex_encode(hash), previous_block.hash,
                            now, data, 0)
             valid == is_block_valid(block, previous_block)
         IN  /\ call' = [op |-> "is_block_valid", block |-> block,
                         previous_block |-> previous_block]
             /\ ret' = valid.ret
             /\ logs' = valid.logs
    /\ UNCHANGED <<blocks, accounts, pub_keys>>

\* the binary rendering and the difficulty check on their own
NextRender == Return \/ RenderHash \/ ValidateStatedHash

SpecRender == Init /\ [][NextRender]_vars

\* Block::mine_block is entered: nonce = 0
MineStart ==
    /\ Idle
    /\ UNCHANGED init_receiver
    /\ \E id \in NewBlockIds, previous_hash \in NewBlockPreviousHashes(blocks),
          data \in Payloads, timestamp \in Timestamps :
         call' = [op |-> "mine_block", id |-> id, timestamp |-> timestamp,
                  previous_hash |-> previous_hash, data |-> data, nonce |-> 0,
                  hash |-> <<>>]
    /\ ret' = "mining"
    /\ logs' = <<"Mining block ...">>
    /\ UNCHANGED <<blocks, accounts, pub_keys>>

\* variant: the nonce is raised by two after a failed try
MineStepSkipsNonce ==
    /\ call.op = "mine_block"
    /\ UNCHANGED init_receiver
    /\ ret = "mining"
    /\ LET hash == calculate_hash(call.id, call.timestamp, call.previous_hash, call.data,
                                  call.nonce)
           binary_hash == hash_to_binary_representation(hash)
       IN  IF starts_with(binary_hash, DIFFICULTY_PREFIX)
           THEN /\ call' = [call EXCEPT !.hash = hex_encode(hash)]
                /\ ret' = "mined"
                /\ logs' = Append(logs, "Mined! Nonce: {}, hash: {}, binary_hash: {}")
           ELSE /\ call' = [call EXCEPT !.nonce = @ + 2]
                /\ UNCHANGED <<ret, logs>>
    /\ UNCHANGED <<blocks, accounts, pub_keys>>

\* one turn of mine_block's loop: the hash for the current nonce is computed
\* and either returned with the nonce or the nonce is raised by one
MineStep ==
    /\ call.op = "mine_block"
    /\ UNCHANGED init_receiver
    /\ ret = "mining"
    /\ LET hash == calculate_hash(call.id, call.timestamp, call.previous_hash, call.data,
                                  call.nonce)
           binary_hash == hash_to_binary_representation(hash)
       IN  IF starts_with(binary_hash, DIFFICULTY_PREFIX)
           THEN /\ call' = [call EXCEPT !.hash = hex_encode(hash)]
                /\ ret' = "mined"
                /\ logs' = Append(logs, "Mined! Nonce: {}, hash: {}, binary_hash: {}")
           ELSE /\ call' = [call EXCEPT !.nonce = @ + 1]
                /\ UNCHANGED <<ret, logs>>
    /\ UNCHANGED <<blocks, accounts, pub_keys>>

\* mining alone, one loop turn at a time
NextMining == Return \/ MineStart \/ MineStep

SpecMining == Init /\ [][NextMining]_vars

\* fork choice: chains grow by genesis and by blocks accepted from peers,
\* and candidate chains are compared
NextForkChoice == Return \/ GenesisAgain \/ ReceiveBlock \/ ChooseChain

SpecForkChoice == Init /\ [][NextForkChoice]_vars

(* ------------------------------ main loop ------------------------------ *)
\* the transfers typed on stdin: transfers of 1, and a payload that is not one
TypedTransfers == {d \in TransferPayloads : d.amount = 1} \cup {DataAccount(GENESIS_ACCOUNT)}

\* EventType::Init, sent by the task spawned at startup after its sleep: the
\* loop receives it once, at any turn, and calls genesis()
HandleInit ==
    /\ Idle
    /\ init_receiver = "pending"
    /\ Len(blocks) < MaxLongChain
    /\ init_receiver' = "received"
    /\ pub_keys' = Insert(pub_keys, GENESIS_ADDRESS, GENESIS_PUB_KEY)
    /\ accounts' = Insert(accounts, GENESIS_ADDRESS, GENESIS_ACCOUNT)
    /\ blocks' = Append(blocks, genesis_block)
    /\ call' = [op |-> "genesis"]
    /\ ret' = "unit"
    /\ logs' = <<"Connected nodes: {}">>

\* handle_create_account ("create account" on stdin): add_account, then
\* handle_create_block with the account as payload
HandleCreateAccount ==
    /\ Idle
    /\ UNCHANGED init_receiver
    /\ Len(blocks) < MaxLongChain
    /\ \E draws \in Draws, now \in Timestamps :
         LET r == add_account(accounts, pub_keys, draws)
             data == DataAccount(r.account)
         IN  /\ r.ret = "account"
             /\ accounts' = r.accounts
             /\ pub_keys' = r.pub_keys
             /\ call' = [op |-> "handle_create_account", data |-> data,
                         create_block |-> TRUE]
             /\ IF blocks = <<>>
                THEN /\ ret' = "panic"
                     /\ logs' = <<"There is at least one block">>
                     /\ UNCHANGED blocks
                ELSE LET latest_block == blocks[Len(blocks)]
                     IN  /\ blocks' = Append(blocks, BlockNew(latest_block.id + 1,
                                                              latest_block.hash, data, now))
                         /\ ret' = "unit"
                         /\ logs' = <<"Mining block ...", "Broadcasting new block">>

\* handle_transfer ("transfer ..." on stdin): try_add_transfer, and
\* handle_create_block with the transfer as payload when it returned true
HandleTransfer ==
    /\ Idle
    /\ UNCHANGED init_receiver
    /\ Len(blocks) < MaxLongChain
    /\ \E data \in TypedTransfers, now \in Timestamps :
         LET r == try_add_transfer(accounts, pub_keys, data)
         IN  /\ accounts' = r.accounts
             /\ UNCHANGED pub_keys
             /\ call' = [op |-> "handle_transfer", data |-> data,
                         create_block |-> (r.ret = "true")]
             /\ IF r.ret # "true"
                THEN /\ ret' = "unit"
                     /\ logs' = r.logs
                     /\ UNCHANGED blocks
                ELSE IF blocks = <<>>
                THEN /\ ret' = "panic"
                     /\ logs' = <<"There is at least one block">>
                     /\ UNCHANGED blocks
                ELSE LET latest_block == blocks[Len(blocks)]
                     IN  /\ blocks' = Append(blocks, BlockNew(latest_block.id + 1,
                                                              latest_block.hash, data, now))
                         /\ ret' = "unit"
                         /\ logs' = <<"Mining block ...", "Broadcasting new block">>

\* inject_event, ChainResponse addressed to this node: the node's chain becomes
\* choose_chain(its chain, the chain received); nothing else is written
HandleChainResponse ==
    /\ Idle
    /\ UNCHANGED init_receiver
    /\ \E remote \in ForkCandidates(blocks) :
         LET r == choose_chain(blocks, accounts, pub_keys, blocks, remote)
         IN  /\ Len(r.chain) <= MaxLongChain
             /\ call' = [op |-> "chain_response", remote |-> remote]
             /\ blocks' = IF r.ret = "chain" THEN r.chain ELSE blocks
             /\ ret' = r.ret
             /\ logs' = r.logs
    /\ UNCHANGED <<accounts, pub_keys>>

\* the select! loop of main: whichever event is ready is handled next
NextEventLoop ==
    \/ Return
    \/ HandleInit
    \/ HandleCreateAccount
    \/ HandleTransfer
    \/ ReceiveBlock
    \/ HandleChainResponse

SpecEventLoop == Init /\ [][NextEventLoop]_vars

(* ====================================================================== *)
(* Properties.  A step that makes a call leaves the call, its result and   *)
(* its log in call', ret', logs'; the unprimed variables are the node      *)
(* before the call.                                                        *)
(* ====================================================================== *)
NodeUnchanged == blocks' = blocks /\ accounts' = accounts /\ pub_keys' = pub_keys

\* the four checks of the validator, each stated on its own
LinkageHolds(b, p) == b.previous_hash = p.hash
DifficultyHolds(b) ==
    starts_with(hash_to_binary_representation(hex_decode(b.hash)), DIFFICULTY_PREFIX)
SequencingHolds(b, p) == b.id = p.id + 1
IntegrityHolds(b) ==
    hex_encode(calculate_hash(b.id, b.timestamp, b.previous_hash, b.data, b.nonce)) = b.hash

\* the hash is read by the validator (linkage holds) and does not decode:
\* the structural failure, which is no validity failure
StructuralFailure(b, p) == LinkageHolds(b, p) /\ ~HexDecodable(b.hash)

\* number of the first check b fails against p, 0 when it passes all four
FirstFailedCheck(b, p) ==
    IF ~LinkageHolds(b, p) THEN 1
    ELSE IF ~DifficultyHolds(b) THEN 2
    ELSE IF ~SequencingHolds(b, p) THEN 3
    ELSE IF ~IntegrityHolds(b) THEN 4
    ELSE 0

ValidatorWarning ==
    <<"Block with id: {} has wrong previous hash",
      "Block with id: {} has invalid difficulty.",
      "Block with id: {} is not the next block after the latest: {}",
      "Block with id: {} has invalid hash">>

\* the step condition of C1
C1_InvalidBlockStep ==
    (/\ call'.op = "try_add_block"
     /\ blocks # <<>>
     /\ ~StructuralFailure(call'.block, blocks[Len(blocks)])
     /\ FirstFailedCheck(call'.block, blocks[Len(blocks)]) # 0)
    => (ret' = "false" /\ NodeUnchanged)
\* C1: try_add_block on a non-empty chain with a block that fails a validator
\* check against the head (its hash being hex where the validator decodes it)
\* returns false and leaves chain, accounts and pub_keys as they were.
C1_InvalidBlockLeavesState == [][C1_InvalidBlockStep]_vars

\* a block with an Account payload that fails only the sequencing check has
\* been rejected
C1_Witness ==
    /\ call.op = "try_add_block"
    /\ blocks # <<>>
    /\ call.block.data.tag = "Account"
    /\ ~StructuralFailure(call.block, blocks[Len(blocks)])
    /\ FirstFailedCheck(call.block, blocks[Len(blocks)]) = 3
    /\ IntegrityHolds(call.block)
    /\ ret = "false"

\* the payload of an accepted block has been applied; the step condition of C2
PayloadApplied(data) ==
    IF data.tag = "Account"
    THEN /\ accounts' = Insert(accounts, data.account.address, data.account)
         /\ pub_keys' = Insert(pub_keys, data.account.address, data.account.pub_key)
    ELSE /\ try_add_transfer(accounts, pub_keys, data).ret = "true"
         /\ accounts' = try_add_transfer(accounts, pub_keys, data).accounts
         /\ pub_keys' = pub_keys
C2_AtomicStep ==
    (call'.op = "try_add_block" /\ blocks # <<>>)
    => /\ ret' = "true" => (blocks' = Append(blocks, call'.block) /\ PayloadApplied(call'.block.data))
       /\ ret' # "true" => NodeUnchanged
       /\ (/\ ~StructuralFailure(call'.block, blocks[Len(blocks)])
           /\ FirstFailedCheck(call'.block, blocks[Len(blocks)]) = 0
           /\ call'.block.data.tag = "Transfer"
           /\ try_add_transfer(accounts, pub_keys, call'.block.data).ret = "false")
          => (ret' = "false" /\ NodeUnchanged)
\* C2: try_add_block either appends the block and applies its payload in full
\* (returning true) or does neither (returning false); a valid block whose
\* transfer is rejected is not appended and changes no account.
C2_AppendAndPayloadAtomic == [][C2_AtomicStep]_vars

\* a block that passes the validator was refused because its transfer was
C2_Witness ==
    /\ call.op = "try_add_block"
    /\ blocks # <<>>
    /\ HexDecodable(call.block.hash)
    /\ FirstFailedCheck(call.block, blocks[Len(blocks)]) = 0
    /\ call.block.data.tag = "Transfer"
    /\ ret = "false"
    /\ logs = <<"Transfer from: insufficient balance!">>

\* the ways a transfer fails, read off the node before the call
UnknownSender(d) == d.from \notin DOMAIN pub_keys
SignatureMismatch(d) == d.from \in DOMAIN pub_keys /\ d.signature # pub_keys[d.from]
UnknownAccount(d) == d.from \notin DOMAIN accounts \/ d.to \notin DOMAIN accounts
InsufficientBalance(d) == d.from \in DOMAIN accounts /\ accounts[d.from].balance < d.amount
TransferFails(d) ==
    \/ d.tag # "Transfer"
    \/ UnknownSender(d)
    \/ SignatureMismatch(d)
    \/ UnknownAccount(d)
    \/ InsufficientBalance(d)

\* the step condition of C3
C3_FailingTransferStep ==
    (call'.op = "try_add_transfer")
    => /\ TransferFails(call'.data) => ret' = "false"
       /\ ret' = "false" => (NodeUnchanged /\ TransferFails(call'.data))
\* C3: every failing call of try_add_transfer returns false and leaves accounts,
\* pub_keys and the chain as they were.
C3_FailedTransferLeavesState == [][C3_FailingTransferStep]_vars

\* a correctly signed transfer from a funded sender to an unregistered receiver
\* has been rejected
C3_Witness ==
    /\ call.op = "try_add_transfer"
    /\ call.data.tag = "Transfer"
    /\ ret = "false"
    /\ call.data.from \in DOMAIN accounts
    /\ call.data.signature = pub_keys[call.data.from]
    /\ accounts[call.data.from].balance >= call.data.amount
    /\ call.data.to \notin DOMAIN accounts

\* the transfer is correctly signed and both its accounts are registered
SignedAndRegistered(d) ==
    /\ d.tag = "Transfer"
    /\ ~UnknownSender(d)
    /\ ~SignatureMismatch(d)
    /\ ~UnknownAccount(d)

ClampToMax(n) == IF n > U64_MAX THEN U64_MAX ELSE n

\* the step condition of C4
C4_ConservationStep ==
    (call'.op = "try_add_transfer" /\ ret' = "true")
    => LET d == call'.data
       IN  /\ accounts'[d.from].balance + d.amount = accounts[d.from].balance
           /\ accounts'[d.to].balance = ClampToMax(accounts[d.to].balance + d.amount)
\* C4: an accepted transfer, whatever from and to are (from = to included),
\* leaves the sender with its balance less amount and the receiver with
\* min(its balance plus amount, u64::MAX).
C4_AcceptedTransferConserves == [][C4_ConservationStep]_vars

\* the step condition of C5
C5_BalanceCheckStep ==
    (call'.op = "try_add_transfer" /\ SignedAndRegistered(call'.data))
    => LET d == call'.data
       IN  /\ ret' = "false" <=> accounts[d.from].balance < d.amount
           /\ ret' = "false"
                => (logs' = <<"Transfer from: insufficient balance!">> /\ NodeUnchanged)
           /\ d.amount = accounts[d.from].balance
                => (ret' = "true" /\ accounts'[d.from].balance = 0)
           /\ \A a \in DOMAIN accounts' : accounts'[a].balance \in 0..U64_MAX
\* C5: a correctly signed transfer between registered accounts is rejected
\* exactly when the sender's balance is below amount, with the insufficient
\* balance reason and no change; one of the whole balance is accepted and leaves
\* the sender at 0; no balance leaves 0..u64::MAX.
C5_RejectedIffInsufficient == [][C5_BalanceCheckStep]_vars

\* the step condition of C6
C6_SaturationStep ==
    (/\ call'.op = "try_add_transfer"
     /\ SignedAndRegistered(call'.data)
     /\ accounts[call'.data.from].balance >= call'.data.amount
     /\ accounts[call'.data.to].balance + call'.data.amount > U64_MAX)
    => LET d == call'.data
       IN  /\ ret' = "true"
           /\ accounts'[d.to].balance = U64_MAX
           /\ accounts'[d.from].balance = accounts[d.from].balance - d.amount
\* C6: an accepted transfer that would take the receiver past u64::MAX leaves
\* the receiver at exactly u64::MAX and the sender debited by amount.
C6_ReceiverSaturates == [][C6_SaturationStep]_vars

\* the step condition of C7, for the transfer d of the call
C7_SignatureStepFor(d) ==
    /\ SignatureMismatch(d) => (ret' # "true" /\ NodeUnchanged)
    /\ accounts' # accounts => (~UnknownSender(d) /\ ~SignatureMismatch(d))
C7_SignatureStep ==
    /\ (call'.op = "try_add_transfer" /\ call'.data.tag = "Transfer")
         => C7_SignatureStepFor(call'.data)
    /\ (call'.op = "try_add_block" /\ blocks # <<>> /\ call'.block.data.tag = "Transfer")
         => C7_SignatureStepFor(call'.block.data)
\* C7: a transfer whose signature differs from the key registered for its
\* sender changes nothing, called directly or carried by a block; balances
\* change only when the signature equals that key.
C7_OnlySignedTransfersApply == [][C7_SignatureStep]_vars

\* a valid block was refused for its signature alone: its receiver is
\* registered and its sender holds the amount
C7_Witness ==
    /\ call.op = "try_add_block"
    /\ blocks # <<>>
    /\ call.block.data.tag = "Transfer"
    /\ HexDecodable(call.block.hash)
    /\ FirstFailedCheck(call.block, blocks[Len(blocks)]) = 0
    /\ SignatureMismatch(call.block.data)
    /\ ~UnknownAccount(call.block.data)
    /\ ~InsufficientBalance(call.block.data)
    /\ call.block.data.amount > 0
    /\ call.block.data.from # call.block.data.to
    /\ ret = "false"

\* the step condition of C8
C8_ReasonStep ==
    (call'.op = "try_add_transfer" /\ call'.data.tag = "Transfer")
    => LET d == call'.data
       IN  /\ UnknownSender(d) => logs' = <<"Transfer: invalid sender address!">>
           /\ SignatureMismatch(d) => logs' = <<"Transfer: signature verification failed">>
           /\ (~UnknownSender(d) /\ ~SignatureMismatch(d) /\ UnknownAccount(d))
                => logs' = <<"Transfer: invalid receiver address!">>
           /\ (SignedAndRegistered(d) /\ InsufficientBalance(d))
                => logs' = <<"Transfer from: insufficient balance!">>
           /\ (SignedAndRegistered(d) /\ ~InsufficientBalance(d))
                => (logs' = <<>> /\ ret' = "true")
\* C8: try_add_transfer reports the first failing check in the order sender
\* key, signature, accounts, balance.
C8_FirstFailingCheckReported == [][C8_ReasonStep]_vars

\* the signature failure was reported for a transfer whose receiver is also
\* unregistered
C8_Witness ==
    /\ call.op = "try_add_transfer"
    /\ call.data.tag = "Transfer"
    /\ SignatureMismatch(call.data)
    /\ call.data.to \notin DOMAIN accounts
    /\ logs = <<"Transfer: signature verification failed">>

\* the step condition of C9
C9_ValidatorStep ==
    (/\ call'.op = "try_add_block"
     /\ blocks # <<>>
     /\ ~StructuralFailure(call'.block, blocks[Len(blocks)]))
    => LET n == FirstFailedCheck(call'.block, blocks[Len(blocks)])
       IN  /\ n # 0 => /\ ret' = "false"
                       /\ logs' = <<ValidatorWarning[n], "Could not add block - invalid.">>
           /\ n = 0 => \A i \in 1..Len(logs') :
                          /\ logs'[i] # "Could not add block - invalid."
                          /\ \A k \in 1..4 : logs'[i] # ValidatorWarning[k]
\* C9: is_block_valid makes its four checks in order, returns true iff all
\* hold, and reports the lowest-numbered check that fails.
C9_ChecksInFixedOrder == [][C9_ValidatorStep]_vars

\* a block that fails both the difficulty and the integrity check was
\* reported for its difficulty
C9_Witness ==
    /\ call.op = "try_add_block"
    /\ blocks # <<>>
    /\ LinkageHolds(call.block, blocks[Len(blocks)])
    /\ HexDecodable(call.block.hash)
    /\ ~DifficultyHolds(call.block)
    /\ ~IntegrityHolds(call.block)
    /\ logs[1] = "Block with id: {} has invalid difficulty."

\* C10: is_chain_valid returns true iff every block after the first passes
\* is_block_valid against its predecessor; a chain of one block is valid.
C10_ChainValidity ==
    call.op = "is_chain_valid"
    => /\ ret = "true" <=> \A i \in 2..Len(call.chain) :
                              is_block_valid(call.chain[i], call.chain[i - 1]).ret = "true"
       /\ Len(call.chain) <= 1 => ret = "true"

\* [genesis, genesis, block on genesis] was judged invalid
C10_Witness ==
    /\ call.op = "is_chain_valid"
    /\ Len(call.chain) = 3
    /\ call.chain[1] = genesis_block
    /\ call.chain[2] = genesis_block
    /\ is_block_valid(call.chain[3], call.chain[2]).ret = "true"
    /\ ret = "false"

(* ---------------------------- fork choice ------------------------------ *)
\* a chain is valid when is_chain_valid returns true, invalid when it returns
\* false (it returns neither when a hash it decodes is not hex)
ValidChain(chain) == is_chain_valid(chain).ret = "true"
InvalidChain(chain) == is_chain_valid(chain).ret = "false"

\* the step condition of C11
C11_LongerStep ==
    (/\ call'.op = "choose_chain"
     /\ ValidChain(call'.local)
     /\ ValidChain(call'.remote))
    => /\ ret' = "chain"
       /\ call'.chain = IF Len(call'.remote) > Len(call'.local)
                        THEN call'.remote ELSE call'.local
\* C11: choose_chain on two valid chains returns remote iff remote is strictly
\* longer than local, and local otherwise (a tie goes to local).
C11_LongerValidChainWins == [][C11_LongerStep]_vars

\* two different valid chains of the same length were compared and local won
C11_Witness ==
    /\ call.op = "choose_chain"
    /\ ValidChain(call.local)
    /\ ValidChain(call.remote)
    /\ Len(call.local) = Len(call.remote)
    /\ call.local # call.remote
    /\ ret = "chain"
    /\ call.chain = call.local

\* the step condition of C12
C12_OnlyValidStep ==
    (call'.op = "choose_chain")
    => /\ (ValidChain(call'.local) /\ InvalidChain(call'.remote))
          => (ret' = "chain" /\ call'.chain = call'.local)
       /\ (InvalidChain(call'.local) /\ ValidChain(call'.remote))
          => (ret' = "chain" /\ call'.chain = call'.remote)
\* C12: when exactly one argument of choose_chain is a valid chain, that chain
\* is returned whatever the two lengths are.
C12_OnlyValidChainWins == [][C12_OnlyValidStep]_vars

\* a valid remote replaced a longer invalid local
C12_Witness ==
    /\ call.op = "choose_chain"
    /\ InvalidChain(call.local)
    /\ ValidChain(call.remote)
    /\ Len(call.remote) < Len(call.local)
    /\ ret = "chain"
    /\ call.chain = call.remote

\* the step condition of C13
C13_NoInvalidStep ==
    (call'.op = "choose_chain")
    => /\ ret' \in {"chain", "panic"}
       /\ ret' = "chain" => /\ call'.chain \in {call'.local, call'.remote}
                            /\ ValidChain(call'.chain)
       /\ (InvalidChain(call'.local) /\ InvalidChain(call'.remote))
          => /\ ret' = "panic"
             /\ logs'[Len(logs')] = "Local and remote chains both are invalid!"
\* C13: choose_chain never returns a chain that fails is_chain_valid: with two
\* invalid chains the call panics, and every chain it returns is one of its
\* arguments and valid.
C13_NeverReturnsInvalidChain == [][C13_NoInvalidStep]_vars

\* two invalid chains were compared and the call panicked
C13_Witness ==
    /\ call.op = "choose_chain"
    /\ InvalidChain(call.local)
    /\ InvalidChain(call.remote)
    /\ call.local # call.remote
    /\ ret = "panic"

\* the step condition of C14
C14_ReadOnlyStep ==
    (call'.op = "choose_chain" /\ ret' # "panic") => NodeUnchanged
\* C14: a returning call of choose_chain leaves the node's chain, accounts and
\* pub_keys as they were, whichever argument wins.
C14_ChooseChainReadOnly == [][C14_ReadOnlyStep]_vars

\* remote won, and the node's chain is still the other one
C14_Witness ==
    /\ call.op = "choose_chain"
    /\ ret = "chain"
    /\ call.chain = call.remote
    /\ call.local = blocks
    /\ call.remote # blocks
    /\ Len(call.remote) > Len(blocks)

(* ------------------------- account registration ------------------------ *)
\* every address but a keeps its record and its key
OthersKeep(a) ==
    /\ DOMAIN accounts' = DOMAIN accounts \cup {a}
    /\ DOMAIN pub_keys' = DOMAIN pub_keys \cup {a}
    /\ \A x \in DOMAIN accounts \ {a} : accounts'[x] = accounts[x]
    /\ \A x \in DOMAIN pub_keys \ {a} : pub_keys'[x] = pub_keys[x]

\* the step condition of C15
C15_AccountBlockStep ==
    (/\ call'.op = "try_add_block"
     /\ blocks # <<>>
     /\ call'.block.data.tag = "Account")
    => /\ (/\ ~StructuralFailure(call'.block, blocks[Len(blocks)])
           /\ FirstFailedCheck(call'.block, blocks[Len(blocks)]) = 0)
          => ret' = "true"
       /\ ret' = "true"
          => LET a == call'.block.data.account
             IN  /\ a.address \in DOMAIN accounts'
                 /\ accounts'[a.address] = a
                 /\ a.address \in DOMAIN pub_keys'
                 /\ pub_keys'[a.address] = a.pub_key
                 /\ OthersKeep(a.address)
                 /\ Len(blocks') = Len(blocks) + 1
                 /\ blocks'[Len(blocks')] = call'.block
                 /\ SubSeq(blocks', 1, Len(blocks)) = blocks
\* C15: a valid block with payload Account(a) is accepted whether or not
\* a.address is registered; afterwards accounts[a.address] = a and
\* pub_keys[a.address] = a.pub_key, every other address keeps its record, the
\* block is the new last block of a chain one longer, and the call returns true.
C15_AccountBlockRegisters == [][C15_AccountBlockStep]_vars

\* an accepted block has replaced the genesis account by an account with
\* another key and balance INIT_BALANCE
C15_Witness ==
    /\ call.op = "try_add_block"
    /\ ret = "true"
    /\ call.block.data.tag = "Account"
    /\ call.block.data.account.address = GENESIS_ADDRESS
    /\ call.block.data.account # GENESIS_ACCOUNT
    /\ accounts[GENESIS_ADDRESS] = call.block.data.account
    /\ pub_keys[GENESIS_ADDRESS] = call.block.data.account.pub_key
    /\ pub_keys[GENESIS_ADDRESS] # GENESIS_PUB_KEY
    /\ blocks[Len(blocks)] = call.block

(* ------------------------------ genesis -------------------------------- *)
\* the genesis block as Node::genesis writes it, field by field
GenesisLiteral ==
    [id |-> 0,
     previous_hash |-> <<"g", "e", "n", "e", "s", "i", "s">>,
     timestamp |-> 1665411300,
     data |-> [tag |-> "Account",
               account |-> [address |-> 0, balance |-> U64_MAX, pub_key |-> 1234]],
     nonce |-> 420,
     hash |-> <<"a","e","e","b","a","d","4","a","7","9","6","f","c","c","2","e",
                "1","5","d","c","4","c","6","0","6","1","b","4","5","e","d","9",
                "b","3","7","3","f","2","6","a","d","f","c","7","9","8","c","a",
                "7","d","2","d","8","c","c","5","8","1","8","2","7","1","8","e">>]

\* the step condition of C16
C16_FreshGenesisStep ==
    (/\ call'.op = "genesis"
     /\ blocks = <<>>
     /\ accounts = EmptyMap
     /\ pub_keys = EmptyMap)
    => /\ blocks' = <<GenesisLiteral>>
       /\ DOMAIN accounts' = {0}
       /\ accounts'[0] = [address |-> 0, balance |-> U64_MAX, pub_key |-> 1234]
       /\ DOMAIN pub_keys' = {0}
       /\ pub_keys'[0] = 1234
       /\ ret' = "unit"
\* C16: genesis() on a fresh node gives a chain of exactly the one fixed block
\* (id 0, previous_hash "genesis", timestamp 1665411300, nonce 420, the hash
\* literal, the genesis account as payload), accounts = {0 -> genesis account}
\* and pub_keys = {0 -> 1234}, the same in every run.
C16_GenesisOnFreshNode == [][C16_FreshGenesisStep]_vars

\* genesis has been called on a node that had no block and no account
C16_Witness ==
    /\ call.op = "genesis"
    /\ Len(blocks) = 1
    /\ blocks[1].nonce = 420
    /\ DOMAIN accounts = {GENESIS_ADDRESS}
    /\ accounts[GENESIS_ADDRESS].balance = U64_MAX

\* the step condition of C17
C17_SecondGenesisStep ==
    (call'.op = "genesis" /\ blocks # <<>>)
    => /\ Len(blocks') = Len(blocks) + 1
       /\ SubSeq(blocks', 1, Len(blocks)) = blocks
       /\ blocks'[Len(blocks')] = GenesisLiteral
       /\ ~LinkageHolds(GenesisLiteral, blocks[Len(blocks)])
       /\ ~SequencingHolds(GenesisLiteral, blocks[Len(blocks)])
       /\ is_chain_valid(blocks').ret = "false"
       /\ GENESIS_ADDRESS \in DOMAIN accounts'
       /\ accounts'[GENESIS_ADDRESS] = GENESIS_ACCOUNT
       /\ pub_keys'[GENESIS_ADDRESS] = GENESIS_PUB_KEY
       /\ OthersKeep(GENESIS_ADDRESS)
\* C17: genesis() on a node that has a chain appends another copy of the
\* genesis block after the tail; the chain is one longer and fails
\* is_chain_valid (the copy fails linkage and sequencing against the tail), and
\* the record of address 0 is reset to balance u64::MAX and key 1234.
C17_SecondGenesisAppends == [][C17_SecondGenesisStep]_vars

\* genesis was called again after a block had replaced the genesis account
C17_Witness ==
    /\ call.op = "genesis"
    /\ Len(blocks) = 3
    /\ blocks[2].data.tag = "Account"
    /\ blocks[2].data.account.address = GENESIS_ADDRESS
    /\ blocks[2].data.account.pub_key # GENESIS_PUB_KEY
    /\ blocks[3] = blocks[1]
    /\ accounts[GENESIS_ADDRESS] = GENESIS_ACCOUNT
    /\ pub_keys[GENESIS_ADDRESS] = GENESIS_PUB_KEY

(* ----------------------------- add_account ----------------------------- *)
\* the step condition of C18
C18_AddAccountStep ==
    (call'.op = "add_account")
    => LET a == call'.account
       IN  /\ ret' = "account"
           /\ a.balance = 0
           /\ a.address \notin DOMAIN accounts
           /\ a.address \in DOMAIN accounts' /\ accounts'[a.address] = a
           /\ a.address \in DOMAIN pub_keys' /\ pub_keys'[a.address] = a.pub_key
           /\ DOMAIN accounts' = DOMAIN accounts \cup {a.address}
           /\ DOMAIN pub_keys' = DOMAIN pub_keys \cup {a.address}
           /\ \A x \in DOMAIN accounts : accounts'[x] = accounts[x]
           /\ \A x \in DOMAIN pub_keys : pub_keys'[x] = pub_keys[x]
           /\ blocks' = blocks
\* C18: add_account returns an account with balance 0 at an address that was
\* not registered; the account and its key are registered under that address,
\* every account and key registered before is unchanged, and so is the chain.
C18_AddAccountFreshAddress == [][C18_AddAccountStep]_vars

\* the first account drawn collided with the genesis account and the second
\* was registered beside it and another one, on a chain that has blocks
C18_Witness ==
    /\ call.op = "add_account"
    /\ ret = "account"
    /\ Len(call.draws) = 2
    /\ call.draws[1].address = GENESIS_ADDRESS
    /\ call.account = call.draws[2]
    /\ blocks # <<>>
    /\ Cardinality(DOMAIN accounts) >= 3
    /\ call.account.address # GENESIS_ADDRESS
    /\ accounts[call.account.address] = call.account
    /\ accounts[GENESIS_ADDRESS] = GENESIS_ACCOUNT

(* ------------------------------- replay -------------------------------- *)
\* block is at place i of the chain and no genesis block has been appended
\* since: every block from place i on was accepted by try_add_block
AcceptedAt(block, i) ==
    /\ i \in 2..Len(blocks)
    /\ blocks[i] = block
    /\ \A j \in i..Len(blocks) : blocks[j] # genesis_block

\* the step condition of C19
C19_ReplayStep ==
    (/\ call'.op = "try_add_block"
     /\ \E i \in 2..Len(blocks) : AcceptedAt(call'.block, i))
    => /\ ret' = "false"
       /\ NodeUnchanged
       /\ FirstFailedCheck(call'.block, blocks[Len(blocks)]) \in {1, 3}
       /\ ~SequencingHolds(call'.block, blocks[Len(blocks)])
\* C19: a block accepted by try_add_block is rejected when it is submitted
\* again, right after its acceptance or after further accepted blocks: the
\* call returns false, chain and accounts are unchanged, and the block fails
\* linkage or sequencing against the head (its id is never head id + 1).
C19_AcceptedBlockNotReplayed == [][C19_ReplayStep]_vars

\* the first accepted block was submitted again after a second block had been
\* accepted on top of it
C19_Witness ==
    /\ call.op = "try_add_block"
    /\ Len(blocks) = 3
    /\ AcceptedAt(call.block, 2)
    /\ blocks[3] # blocks[2]
    /\ ret = "false"

(* -------------------------------- miner -------------------------------- *)
\* the step condition of C20
C20_MinedBlockStep ==
    /\ (call'.op = "block_new")
       => LET b == call'.block
          IN  /\ b.id = call'.id
              /\ b.previous_hash = call'.previous_hash
              /\ b.data = call'.data
              /\ b.timestamp = call'.now
              /\ HexDecodable(b.hash)
              /\ DifficultyHolds(b)
              /\ IntegrityHolds(b)
              /\ (/\ blocks # <<>>
                  /\ call'.id = blocks[Len(blocks)].id + 1
                  /\ call'.previous_hash = blocks[Len(blocks)].hash)
                 => is_block_valid(b, blocks[Len(blocks)]).ret = "true"
    /\ (call'.op = "create_block" /\ blocks # <<>>)
       => /\ call'.block.data = call'.data
          /\ FirstFailedCheck(call'.block, blocks[Len(blocks)]) = 0
          /\ is_block_valid(call'.block, blocks[Len(blocks)]).ret = "true"
\* C20: every block made by Block::new stores the id, previous_hash and data
\* it was given and the one clock reading it was mined with; its hash is the
\* hex digest of exactly the stored fields and passes the difficulty check;
\* made for head.id + 1 on head.hash it passes all four checks against head.
C20_MinedBlocksPassValidation == [][C20_MinedBlockStep]_vars

\* a block with a transfer payload was mined on a head that is not the
\* genesis block and passes the validator against it
C20_Witness ==
    /\ call.op = "block_new"
    /\ Len(blocks) >= 2
    /\ blocks[Len(blocks)] # genesis_block
    /\ call.data.tag = "Transfer"
    /\ call.id = blocks[Len(blocks)].id + 1
    /\ call.previous_hash = blocks[Len(blocks)].hash
    /\ call.block.nonce > 0
    /\ is_block_valid(call.block, blocks[Len(blocks)]).ret = "true"

(* ----------------------------- empty chain ----------------------------- *)
\* the step condition of C21
C21_EmptyChainStep ==
    /\ (call'.op = "try_add_block" /\ blocks = <<>>)
       => /\ ret' = "panic"
          /\ logs' = <<"There is at least one block">>
          /\ NodeUnchanged
    /\ (blocks # <<>> /\ call'.op \in {"add_account", "try_add_block", "try_add_transfer"})
       => /\ blocks' # <<>>
          /\ logs' # <<"There is at least one block">>
\* C21: on a node without a block try_add_block panics in get_last_block for
\* every block instead of returning false; on a node that has a block,
\* add_account, try_add_block and try_add_transfer never empty the chain and
\* never take that panic.
C21_EmptyChainIsFatal == [][C21_EmptyChainStep]_vars

\* a correctly mined block was submitted to a node without genesis
C21_Witness ==
    /\ call.op = "try_add_block"
    /\ blocks = <<>>
    /\ call.block \in MinedOn(<<>>, AlteredPayloads)
    /\ ret = "panic"

(* --------------------------- binary rendering -------------------------- *)
\* number of binary digits of c without leading zeros (one digit for 0)
BitLength(c) == CHOOSE n \in 1..8 : c < 2 ^ n /\ (n = 1 \/ c >= 2 ^ (n - 1))
\* the binary digits of c, most significant first, without leading zeros
BinaryDigits(c) ==
    [i \in 1..BitLength(c) |-> IF (c \div (2 ^ (BitLength(c) - i))) % 2 = 1 THEN "1" ELSE "0"]
\* the same, but nothing at all for c = 0
BinaryDigitsNoZero(c) == IF c = 0 THEN <<>> ELSE BinaryDigits(c)

\* C22 as stated: every byte is rendered as its binary digits without padding,
\* in order, a byte 1 as "1" and a byte 0 as the empty string.
C22_ZeroByteRendersEmpty ==
    call.op = "hash_to_binary_representation"
    => /\ Len(call.hash) = 1 => call.binary = BinaryDigitsNoZero(call.hash[1])
       /\ Len(call.hash) = 2 => call.binary = BinaryDigitsNoZero(call.hash[1])
                                              \o BinaryDigitsNoZero(call.hash[2])

\* C22 amended: every byte is rendered as its binary digits without padding,
\* in order, a byte 1 as "1" and a byte 0 as the one digit "0".
C22_RendersWithoutPadding ==
    call.op = "hash_to_binary_representation"
    => /\ call.hash = <<>> => call.binary = <<>>
       /\ call.hash = <<1>> => call.binary = <<"1">>
       /\ call.hash = <<0>> => call.binary = <<"0">>
       /\ Len(call.hash) = 1 => call.binary = BinaryDigits(call.hash[1])
       /\ Len(call.hash) = 2 => call.binary = BinaryDigits(call.hash[1])
                                              \o BinaryDigits(call.hash[2])

\* the bytes 0 and 1 were rendered as "01"
C22_Witness ==
    /\ call.op = "hash_to_binary_representation"
    /\ call.hash = <<0, 1>>
    /\ call.binary = <<"0", "1">>

\* C29: the difficulty check of is_block_valid passes exactly when the first
\* two bytes of the stated hash are both zero (the hex form starts with
\* "0000"): a first byte 0x0f fails, and so does a zero byte followed by a
\* byte that is not zero.
C29_DifficultyIsTwoZeroBytes ==
    (call.op = "is_block_valid" /\ LinkageHolds(call.block, call.previous_block))
    => LET hash == hex_decode(call.block.hash)
           rejected == ret = "false" /\ logs = <<"Block with id: {} has invalid difficulty.">>
       IN  /\ ~rejected <=> (hash[1] = 0 /\ hash[2] = 0)
           /\ ~rejected <=> SubSeq(call.block.hash, 1, 4) = <<"0", "0", "0", "0">>
           /\ hash[1] = 15 => rejected
           /\ (hash[1] = 0 /\ hash[2] # 0) => rejected

\* a hash starting with the byte 0x0f was rejected for its difficulty
C29_Witness ==
    /\ call.op = "is_block_valid"
    /\ LinkageHolds(call.block, call.previous_block)
    /\ SubSeq(call.block.hash, 1, 2) = <<"0", "f">>
    /\ ret = "false"
    /\ logs = <<"Block with id: {} has invalid difficulty.">>

(* ------------------------------- mining -------------------------------- *)
\* the digest mine_block computes for nonce n in the call c passes the
\* difficulty check: its first two bytes are zero
NoncePasses(c, n) ==
    LET hash == calculate_hash(c.id, c.timestamp, c.previous_hash, c.data, n)
    IN  hash[1] = 0 /\ hash[2] = 0

SameMiningInputs ==
    /\ call'.id = call.id
    /\ call'.timestamp = call.timestamp
    /\ call'.previous_hash = call.previous_hash
    /\ call'.data = call.data

\* the step condition of C30; the nonce tried never exceeds the least passing
\* nonce and grows by one with every failed turn, so the loop ends after
\* that many turns
C30_MiningStep ==
    /\ (call'.op = "mine_block" /\ call.op # "mine_block") => call'.nonce = 0
    /\ (call'.op = "mine_block" /\ ret' = "mining")
       => call'.nonce <= mine_block(call'.id, call'.timestamp, call'.previous_hash,
                                    call'.data)[1]
    /\ (call.op = "mine_block" /\ call'.op = "mine_block" /\ ret' = "mining")
       => /\ SameMiningInputs
          /\ call'.nonce = call.nonce + 1
          /\ ~NoncePasses(call, call.nonce)
    /\ (call.op = "mine_block" /\ ret = "mining" /\ ret' = "mined")
       => /\ SameMiningInputs
          /\ call'.nonce = call.nonce
          /\ NoncePasses(call, call.nonce)
          /\ \A n \in 0..(call.nonce - 1) : ~NoncePasses(call, n)
          /\ call'.hash = hex_encode(calculate_hash(call.id, call.timestamp,
                                                    call.previous_hash, call.data,
                                                    call.nonce))
          /\ <<call'.nonce, call'.hash>>
                = mine_block(call.id, call.timestamp, call.previous_hash, call.data)
\* C30: mine_block tries the nonces 0, 1, 2, ... in this order and returns the
\* least nonce whose hash passes the difficulty check with the hex form of
\* that hash; the pair depends on (id, timestamp, previous_hash, data) only,
\* and the loop ends once a nonce passes.
C30_MinesLeastNonce == [][C30_MiningStep]_vars

\* a block was mined after at least two nonces had failed
C30_Witness ==
    /\ call.op = "mine_block"
    /\ ret = "mined"
    /\ call.nonce >= 2
    /\ ~NoncePasses(call, 0)
    /\ ~NoncePasses(call, 1)

(* --------------------------- root of the chain ------------------------- *)
\* the step condition of C25
C25_RootStep ==
    (call'.op = "choose_chain")
    => /\ (ret' = "chain" /\ call'.chain # <<>>) => call'.chain[1] = genesis_block
       /\ (call'.remote # <<>> /\ call'.remote[1] # genesis_block)
          => ~ValidChain(call'.remote)
\* C25: every chain choose_chain returns starts with the genesis block, and a
\* remote chain whose first block is not the genesis block is not judged valid.
C25_ReturnedChainHasGenesisRoot == [][C25_RootStep]_vars

(* ------------------------------ registry ------------------------------- *)
\* accounts and pub_keys name the same addresses and agree on every record
RegistryAgrees(accts, keys) ==
    /\ DOMAIN accts = DOMAIN keys
    /\ \A a \in DOMAIN accts :
         /\ accts[a].address = a
         /\ keys[a] = accts[a].pub_key

\* the transfer handed to the node by the step just taken, if there is one
TransferOfCall(c) ==
    IF c.op = "try_add_transfer" THEN c.data
    ELSE IF c.op = "try_add_block" THEN c.block.data
    ELSE DataAccount(GENESIS_ACCOUNT)

\* the step condition of C28
C28_RegistryStep ==
    LET transfer == TransferOfCall(call')
    IN  /\ RegistryAgrees(accounts', pub_keys')
        /\ (call'.op \in {"try_add_transfer", "try_add_block"}
              /\ transfer.tag = "Transfer" /\ ret' = "true")
           => \A a \in {transfer.from, transfer.to} :
                /\ a \in DOMAIN accounts /\ a \in DOMAIN accounts'
                /\ accounts'[a].address = accounts[a].address
                /\ accounts'[a].pub_key = accounts[a].pub_key
                /\ pub_keys'[a] = pub_keys[a]
        /\ (call'.op \in {"try_add_transfer", "try_add_block"}
              /\ logs' = <<"Transfer: invalid receiver address!">>)
           => /\ transfer.tag = "Transfer"
              /\ transfer.from \in DOMAIN accounts
              /\ transfer.to \notin DOMAIN accounts
\* C28: accounts and pub_keys always hold the same addresses, every account is
\* stored under its own address with the public key pub_keys records for it, an
\* accepted transfer keeps the address and public key of sender and receiver,
\* and a transfer that passed the sender-key check is refused at the account
\* lookup only when the receiver is not registered.
C28_RegistryInvariant == [][C28_RegistryStep]_vars
\* witness: a transfer between two different registered accounts was accepted
\* in a block
C28_Witness ==
    /\ call.op = "try_add_block" /\ ret = "true"
    /\ call.block.data.tag = "Transfer"
    /\ call.block.data.from # call.block.data.to
    /\ Cardinality(DOMAIN accounts) >= 2

(* --------------------------- chain invariant --------------------------- *)
\* genesis at index 0, every later block valid against the one before it and
\* numbered by its index
ChainInvariant(chn) ==
    /\ chn # <<>>
    /\ chn[1] = genesis_block
    /\ \A i \in 2..Len(chn) :
         /\ is_block_valid(chn[i], chn[i - 1]).ret = "true"
         /\ chn[i].id = i - 1
    /\ is_chain_valid(chn).ret = "true"

\* the step condition of C26
C26_ChainStep ==
    /\ (call'.op = "genesis") => blocks' # <<>>
    /\ (blocks' # <<>>) => ChainInvariant(blocks')
    /\ (blocks # <<>>)
       => /\ Len(blocks') >= Len(blocks)
          /\ SubSeq(blocks', 1, Len(blocks)) = blocks
\* C26: once genesis has run on a fresh node, whatever add_account,
\* try_add_block and try_add_transfer calls follow, the chain is non-empty,
\* starts with the genesis block, every later block passes is_block_valid
\* against its predecessor and has its index as id, is_chain_valid holds, and
\* the blocks already in the chain stay where and as they are.
C26_ChainInvariantKept == [][C26_ChainStep]_vars
\* witness: a third block, a transfer, was accepted on a chain of two
C26_Witness ==
    /\ call.op = "try_add_block" /\ ret = "true"
    /\ Len(blocks) = MaxLongChain
    /\ blocks[Len(blocks)] = call.block
    /\ call.block.data.tag = "Transfer"

(* --------------------------- ledger as replay -------------------------- *)
\* one payload applied to the maps of node: an Account is inserted; a Transfer
\* debits the sender, then credits the receiver with saturation
C27_ApplyPayload(node, data) ==
    IF data.tag = "Account"
    THEN [accounts |-> Insert(node.accounts, data.account.address, data.account),
          pub_keys |-> Insert(node.pub_keys, data.account.address, data.account.pub_key)]
    ELSE IF data.from \in DOMAIN node.accounts /\ data.to \in DOMAIN node.accounts
    THEN LET debited == [node.accounts EXCEPT ![data.from].balance = @ - data.amount]
             credited == [debited EXCEPT ![data.to].balance =
                                             saturating_add(@, data.amount)]
         IN  [accounts |-> credited, pub_keys |-> node.pub_keys]
    ELSE node

\* the maps obtained from empty maps by the payloads of chain, in chain order
RECURSIVE C27_ReplayChain(_)
C27_ReplayChain(chain) ==
    IF chain = <<>>
    THEN [accounts |-> EmptyMap, pub_keys |-> EmptyMap]
    ELSE C27_ApplyPayload(C27_ReplayChain(SubSeq(chain, 1, Len(chain) - 1)),
                          chain[Len(chain)].data)

\* C27: after genesis on a fresh node and try_add_block calls only, accounts
\* and pub_keys are the maps obtained by replaying the payloads of the chain's
\* blocks in order, each once; rejected blocks contribute nothing.
C27_LedgerIsReplayOfChain ==
    /\ accounts = C27_ReplayChain(blocks).accounts
    /\ pub_keys = C27_ReplayChain(blocks).pub_keys

(* ------------------------------ adoption ------------------------------- *)
\* the step condition of C23
C23_AdoptionStep ==
    (call'.op = "chain_response" /\ ret' = "chain" /\ blocks' # blocks)
    => /\ blocks' = call'.remote
       /\ accounts' = C27_ReplayChain(blocks').accounts
       /\ pub_keys' = C27_ReplayChain(blocks').pub_keys
\* C23: when the node replaces its chain by the one choose_chain returned for
\* a peer's ChainResponse, accounts and pub_keys are the maps obtained by
\* replaying the payloads of the adopted chain.
C23_AdoptedChainIsReplayed == [][C23_AdoptionStep]_vars

(* ------------------------------- startup ------------------------------- *)
\* the step condition of C24
C24_StartupStep ==
    /\ (call'.op = "genesis") => (init_receiver = "pending" /\ init_receiver' # "pending")
    /\ (call'.op = "try_add_block") => blocks # <<>>
    /\ (call'.op \in {"handle_create_account", "handle_transfer"} /\ call'.create_block)
       => blocks # <<>>
    /\ ~(ret' = "panic" /\ logs' = <<"There is at least one block">>)
\* C24: in the main loop genesis() runs once and before every handler that
\* reads the chain head: no try_add_block and no handle_create_block runs on
\* an empty chain, and the fatal empty-chain path is never taken.
C24_GenesisBeforeHeadReaders == [][C24_StartupStep]_vars

(* ------------------------ frame of a transfer -------------------------- *)
\* the sum of the balances of the accounts registered under the addresses as
RECURSIVE SumOfBalances(_, _)
SumOfBalances(accts, as) ==
    IF as = {} THEN 0
    ELSE LET a == CHOOSE x \in as : TRUE
         IN  accts[a].balance + SumOfBalances(accts, as \ {a})

\* the step condition of C31
C31_FrameStep ==
    (call'.op = "try_add_transfer" /\ ret' = "true")
    => LET d == call'.data
       IN  /\ DOMAIN accounts' = DOMAIN accounts
           /\ \A a \in DOMAIN accounts \ {d.from, d.to} : accounts'[a] = accounts[a]
           /\ \A a \in {d.from, d.to} :
                /\ accounts'[a].address = accounts[a].address
                /\ accounts'[a].pub_key = accounts[a].pub_key
           /\ pub_keys' = pub_keys
           /\ blocks' = blocks
           /\ (d.from # d.to /\ accounts[d.to].balance + d.amount <= U64_MAX)
              => SumOfBalances(accounts', DOMAIN accounts')
                   = SumOfBalances(accounts, DOMAIN accounts)
\* C31: a try_add_transfer call that returns true changes only the balance
\* fields of the sender's and the receiver's records: every other record,
\* pub_keys, the set of registered addresses and the chain stay as they are,
\* and with from # to and no saturation the sum of all balances is kept.
C31_AcceptedTransferFrame == [][C31_FrameStep]_vars
\* witness: a transfer between two different accounts was accepted without
\* saturation on a node that has a third account
C31_Witness ==
    /\ call.op = "try_add_transfer" /\ ret = "true"
    /\ call.data.from # call.data.to
    /\ accounts[call.data.to].balance < U64_MAX
    /\ Cardinality(DOMAIN accounts) >= 3

====
